---- MODULE Spec2Model ----
(***************************************************************************)
(* Range Herd dashboard (darthridder/range-herd-frontend).                 *)
(*                                                                         *)
(* The repository holds several versions of the Dashboard component.  The  *)
(* model keeps them apart:                                                 *)
(*   - the point store of Dashboard.tsx:167 (loadLatestPoints, 224-256),   *)
(*     variable pointsByDevice;                                            *)
(*   - the transport hook useReconnectingWebSocket (Dashboard.tsx:1569)    *)
(*     with the Dashboard that uses it (Dashboard.tsx:1653: loadInitial,   *)
(*     handleMessage), variables retryCount .. pointsByDeviceWs;           *)
(*   - the WebSocket effect of Dashboard.tsx:420-497 (with the stopped     *)
(*     flag), the connectWs callback of part_002:751-792 (without it) and  *)
(*     the REST loads their frames start, variables wsRef .. toastTimers.  *)
(* Each part has its own next-state relation and specification.            *)
(***************************************************************************)
EXTENDS Integers, Sequences, FiniteSets, TLC

VARIABLES
    pointsByDevice,     \* Dashboard.tsx:175  Record<string, LivePoint[]>
    \* useReconnectingWebSocket (Dashboard.tsx:1569-1625) and its Dashboard
    retryCount,         \* :1574 retryCount.current
    retryTimeout,       \* :1575 retryTimeout.current (0: null)
    isMounted,          \* :1576 isMounted.current
    hookUp,             \* the effect of :1616 is set up (its cleanup is due)
    hookWs,             \* :1618 the ws the cleanup closure holds (0: none)
    sockets,            \* the WebSocket objects connect() created, by handle
    timers,             \* pending setTimeout(connect, delay): handle -> delay
    wsStatus,           \* :1655 wsStatus, written by onStatusChange
    pointsByDeviceWs,   \* :1654 pointsByDevice of this Dashboard
    loadStatus,         \* :1656 loadStatus
    loadsInFlight,      \* loadInitial calls that await their responses
    setups,             \* how often the effect was set up
    failures,           \* close events handled since the last open
    \* Dashboard.tsx:167 (token, user, onLogout): its effects and REST loads;
    \* the connectWs Dashboard of part_002:584 has the same state.
    wsRef,              \* :185 wsRef.current (0: null)
    reconnectTimerRef,  \* :186 reconnectTimerRef.current (0: null)
    dashStatus,         \* :168 wsStatus
    dashSockets,        \* WebSocket objects: handle -> state, effect run
    dashTimers,         \* pending reconnect timers: handle -> effect run
    stoppedRuns,        \* :421 effect runs whose stopped flag is true
    dashRun,            \* number of the latest run of the WebSocket effect
    dashUp,             \* the WebSocket effect is set up
    dashFailures,       \* closes the effect of :420 handled since the last open
    chains,             \* async load sequences awaiting a response
    devices,            \* :171 devices
    unclaimed,          \* :172 unclaimed
    geofences,          \* :178 geofences
    dashLoadStatus,     \* :169 loadStatus
    superseded,         \* sequences whose awaited fetch of a list was
                        \* followed by a later fetch of the same list
    stale,              \* lists set last from a fetch that a later fetch
                        \* of the same list had followed
    lastEnd,            \* how the latest sequence to end has ended
    incomingAlert,      \* :182 incomingAlert
    toastAlert,         \* :183 toastAlert
    toastTimers,        \* pending 8000 ms toast timers, by alert id
    \* What the host page observes of the handlers
    uncaught,           \* an exception escaped an event handler
    frameLog,           \* "dropped": a frame failed to parse; "processed":
                        \* an uplink frame was stored after that
    lastFrame,          \* the frame the hook received last while mounted
    \* motionByDevice (Dashboard.tsx:501-554) for one device
    motionPts,          \* :505 pts, the history of the device
    motionNow,          \* :503 Date.now()
    motionOut,          \* :507-550 out[deviceId] ("none": not computed yet)
    \* The session and the operations of the user (Dashboard.tsx:263-341)
    claimingId,         \* :173 claimingId ("": null)
    geofenceBusy,       \* :180 geofenceBusy
    opRequest,          \* the POST or DELETE awaiting its response
    opResult,           \* the promise of the latest operation
    loggedOut,          \* onLogout was invoked
    \* The derived views of the Dashboards (Dashboard.tsx:556-577, 940-968,
    \* 1718-1727, 1953-1969)
    selectedDevice,     \* :177, :1657 selectedDevice ("": null)
    keyOrder,           \* the order of the keys of the pointsByDevice record
    alertCenter,        \* :1659 alertCenter (<<>>: null)
    view,               \* the values computed by the latest render
    \* The Dashboard of Dashboard.tsx:1041 and its loadLatestPoints (1131-1167)
    pointsByDeviceB,    \* :1049 pointsByDevice of this Dashboard
    loadThrew,          \* its latest loadLatestPoints rejected
    \* App (App.tsx:8-96) and the App without token state (App.tsx:104-178),
    \* each with the localStorage of its browser
    app,                \* :9-12 view, user, token, loading, by version
    storage,            \* localStorage items token and user, by version
    \* The backend of /live
    serverUp,           \* it accepts every connection from now on
    \* The initial load and polling effect (Dashboard.tsx:383-417)
    pollRun,            \* number of the latest run of the effect
    pollUp              \* the effect is set up: mounted is true, the
                        \* interval of :402 is running

(***************************************************************************)
(* Bounds of the model.                                                    *)
(***************************************************************************)
\* The window of loadLatestPoints is 120 points (Dashboard.tsx:251); the
\* model keeps the same slice with a window small enough to fill.
WindowCap == 3
\* Longest array a /api/live/latest response holds in the model.
MaxBatch == 2
\* WebSocket objects and timers that exist at once in the model.
MaxSockets == 3
MaxTimers == 2
\* How often the connect effect is set up (each time after a teardown).
MaxSetups == 2
\* loadInitial calls in flight at once.
MaxLoads == 1
\* Load sequences (poll, initial load, per-frame refresh) in flight at once.
MaxChains == 2
\* Consecutive close events followed in the life cycle of the Dashboard
\* WebSocket effect, which has no bound of its own.
MaxFailures == 11
\* Points in a history given to the motion classifier.
MaxHistory == 3

(***************************************************************************)
(* LivePoint (Dashboard.tsx:26-40).  "" stands for an absent or empty      *)
(* string field (both are falsy for ||); fCnt is kept in its rendered      *)
(* form, "null" and "undefined" being the two absent values of ??.         *)
(***************************************************************************)
Pt(dev, t, r, la, lo, f, b) ==
    [deviceId |-> dev, ts |-> t, receivedAt |-> r, lat |-> la, lon |-> lo,
     fCnt |-> f, batteryPct |-> b]

\* Date strings the backend sends, with new Date(t).getTime() of each.
NaN == -1
DateGetTime(t) ==
    CASE t = "2024-05-01T10:00:00Z"     -> 36000000
      [] t = "2024-05-01T10:00:00.000Z" -> 36000000
      [] t = "2024-05-01T10:01:00Z"     -> 36060000
      [] t = "2024-05-01T10:02:00Z"     -> 36120000
      [] t = "2024-05-01T10:04:00Z"     -> 36240000
      [] OTHER                          -> NaN

NumberIsFinite(v) == v # NaN

\* function toMs(t?: string)
toMsNoGuard(t) == IF t # "" THEN DateGetTime(t) ELSE 0
toMs(t) ==
    LET v == IF t # "" THEN DateGetTime(t) ELSE 0
    IN  IF NumberIsFinite(v) THEN v ELSE 0

\* The null of lat and lon (no fix); arithmetic converts null to 0.
Null == -1000
ToNumber(v) == IF v = Null THEN 0 ELSE v

\* x.ts || x.receivedAt  (undefined, rendered "", when both are absent)
TsOf(x) == IF x.ts # "" THEN x.ts ELSE x.receivedAt

Devices == {"d1", "d2"}

PointUniverse ==
    { Pt("d1", "2024-05-01T10:00:00Z", "", 1, 1, "7", 90),
      Pt("d1", "2024-05-01T10:00:00Z", "", 1, 1, "7", 80),
      Pt("d1", "2024-05-01T10:00:00Z", "", 2, 1, "7", 90),
      Pt("d1", "2024-05-01T10:00:00Z", "", 1, 1, "null", 90),
      Pt("d1", "2024-05-01T10:00:00Z", "", 1, 1, "undefined", 90),
      Pt("d1", "", "2024-05-01T10:00:00.000Z", 1, 1, "7", 90),
      Pt("d1", "2024-05-01T10:01:00Z", "", 1, 1, "8", 90),
      Pt("d1", "2024-05-01T10:02:00Z", "", 1, 2, "9", 90),
      Pt("d1", "", "", 1, 1, "7", 90),
      Pt("d1", "not a date", "", 1, 1, "7", 90),
      Pt("d2", "2024-05-01T10:01:00Z", "", 5, 5, "1", 50),
      Pt("",   "2024-05-01T10:02:00Z", "", 5, 5, "2", 50) }

(***************************************************************************)
(* loadLatestPoints (Dashboard.tsx:224-256).                               *)
(***************************************************************************)
\* const key = `${x.ts || x.receivedAt || ""}-${x.lat}-${x.lon}-${x.fCnt ?? ""}`
\* The four parts are kept as a tuple: with lat, lon and fCnt numbers the
\* joined string is read back part by part from its right end.
DedupeKeyNoFCnt(x) == <<TsOf(x), x.lat, x.lon, "">>
DedupeKey(x) ==
    <<TsOf(x), x.lat, x.lon,
      IF x.fCnt \in {"null", "undefined"} THEN "" ELSE x.fCnt>>

\* for (const x of next) { if (seen.has(key)) continue; ... deduped.push(x) }
RECURSIVE DedupeFrom(_, _, _)
DedupeFrom(next, seen, deduped) ==
    IF next = <<>> THEN deduped
    ELSE LET x == Head(next)
             key == DedupeKey(x)
         IN  IF key \in seen
             THEN DedupeFrom(Tail(next), seen, deduped)
             ELSE DedupeFrom(Tail(next), seen \cup {key}, Append(deduped, x))

Dedupe(next) == DedupeFrom(next, {}, <<>>)

\* (a, b) => toMs(a.ts || a.receivedAt) - toMs(b.ts || b.receivedAt)
Compare(a, b) == toMs(TsOf(a)) - toMs(TsOf(b))

\* Array.prototype.sort is stable: x goes after every element that does not
\* compare greater than it.
RECURSIVE InsertSorted(_, _)
InsertSorted(s, x) ==
    IF s = <<>> THEN <<x>>
    ELSE IF Compare(Head(s), x) > 0 THEN <<x>> \o s
    ELSE <<Head(s)>> \o InsertSorted(Tail(s), x)

RECURSIVE SortFrom(_, _)
SortFrom(s, acc) ==
    IF s = <<>> THEN acc ELSE SortFrom(Tail(s), InsertSorted(acc, Head(s)))

SortUnsorted(s) == s
SortByTime(s) == SortFrom(s, <<>>)

\* arr.slice(-n)
SliceFirst(s, n) == IF Len(s) <= n THEN s ELSE SubSeq(s, 1, n)
SliceLast(s, n) == IF Len(s) <= n THEN s ELSE SubSeq(s, Len(s) - n + 1, Len(s))

\* The body of the loop over Object.entries(by): one device's new history.
MergeDevice(existing, pts) ==
    SliceLast(SortByTime(Dedupe(existing \o pts)), WindowCap)

\* by[id]: the points of data with that deviceId, in the order of data;
\* elements without a deviceId are skipped (line 229).
RECURSIVE GroupBy(_, _)
GroupBy(data, id) ==
    IF data = <<>> THEN <<>>
    ELSE IF Head(data).deviceId # "" /\ Head(data).deviceId = id
         THEN <<Head(data)>> \o GroupBy(Tail(data), id)
         ELSE GroupBy(Tail(data), id)

\* The updater handed to setPointsByDevice: devices without a point in data
\* keep their history ({ ...prev }).
MergeStore(prev, data) ==
    [id \in Devices |->
        IF GroupBy(data, id) = <<>> THEN prev[id]
        ELSE MergeDevice(prev[id], GroupBy(data, id))]

Batches ==
    UNION { [1..n -> PointUniverse] : n \in 0..MaxBatch }

(***************************************************************************)
(* loadLatestPoints of the Dashboard of Dashboard.tsx:1041 (1131-1167),    *)
(* and the responses with malformed elements both versions are given.      *)
(***************************************************************************)
\* The JSON value null as an element of the response.
NullElement == Pt("<null>", "", "", 0, 0, "undefined", 0)

\* by[p.deviceId] of a point without deviceId is by["undefined"].
DevicesB == Devices \cup {"undefined"}
KeyOf(p) == IF p.deviceId = "" THEN "undefined" ELSE p.deviceId

\* for (const p of data) { if (!by[p.deviceId]) ...; by[p.deviceId].push(p) }
\* (1135-1138): reading p.deviceId of null throws a TypeError.
ByThrows(data) == \E i \in 1..Len(data) : data[i] = NullElement

RECURSIVE GroupByB(_, _)
GroupByB(data, id) ==
    IF data = <<>> THEN <<>>
    ELSE IF KeyOf(Head(data)) = id
         THEN <<Head(data)>> \o GroupByB(Tail(data), id)
         ELSE GroupByB(Tail(data), id)

\* const key = `${x.ts || x.receivedAt || ""}-${x.lat}-${x.lon}` (1150)
DedupeKeyB(x) == <<TsOf(x), x.lat, x.lon>>

RECURSIVE DedupeFromB(_, _, _)
DedupeFromB(next, seen, deduped) ==
    IF next = <<>> THEN deduped
    ELSE LET x == Head(next)
             key == DedupeKeyB(x)
         IN  IF key \in seen
             THEN DedupeFromB(Tail(next), seen, deduped)
             ELSE DedupeFromB(Tail(next), seen \cup {key}, Append(deduped, x))

\* The body of the loop of 1143-1162.  The comparator (1156-1159) is the
\* difference of new Date(x.ts || x.receivedAt || 0).getTime(), which for an
\* absent or a well-formed date is that of toMs; the window is 60 points
\* (1161), kept like the one of 251.
MergeDeviceB(existing, pts) ==
    SliceLast(SortByTime(DedupeFromB(existing \o pts, {}, <<>>)), WindowCap)

MergeStoreB(prev, data) ==
    [id \in DevicesB |->
        IF GroupByB(data, id) = <<>> THEN prev[id]
        ELSE MergeDeviceB(prev[id], GroupByB(data, id))]

\* The elements of the responses: points of two devices, a point without a
\* deviceId, and null.
BatchPoints ==
    { Pt("d1", "2024-05-01T10:00:00Z", "", 1, 1, "7", 90),
      Pt("d1", "2024-05-01T10:01:00Z", "", 1, 1, "8", 90),
      Pt("d1", "2024-05-01T10:02:00Z", "", 1, 2, "9", 90),
      Pt("d2", "2024-05-01T10:01:00Z", "", 5, 5, "1", 50),
      Pt("",   "2024-05-01T10:02:00Z", "", 5, 5, "2", 50),
      NullElement }
MalBatches == UNION { [1..n -> BatchPoints] : n \in 0..MaxBatch }


(***************************************************************************)
(* useReconnectingWebSocket (Dashboard.tsx:1566-1625) and the Dashboard    *)
(* that uses it (Dashboard.tsx:1653-1714).                                 *)
(***************************************************************************)
WS_MAX_RETRIES == 10
WS_BASE_DELAY_MS == 1000
WS_MAX_DELAY_MS == 30000
\* The window of handleMessage is 100 points (Dashboard.tsx:1704); the
\* model keeps the same slice with a window small enough to fill.
StreamCap == 2

SocketIds == 1..MaxSockets
TimerIds == 1..MaxTimers

\* Math.min(WS_BASE_DELAY_MS * 2 ** retryCount.current, 30000)
BackoffLinear(n) ==
    IF WS_BASE_DELAY_MS * (n + 1) < WS_MAX_DELAY_MS
    THEN WS_BASE_DELAY_MS * (n + 1) ELSE WS_MAX_DELAY_MS
BackoffDelay(n) ==
    IF WS_BASE_DELAY_MS * 2 ^ n < WS_MAX_DELAY_MS
    THEN WS_BASE_DELAY_MS * 2 ^ n ELSE WS_MAX_DELAY_MS

\* A WebSocket is CONNECTING, then OPEN; "closing" is a socket whose close
\* event is due (close() was called, or an error event was dispatched);
\* "closed" is one whose close event was dispatched, "none" no object.
Live(st) == st \in {"connecting", "open"}

\* new WebSocket(url) / setTimeout: a handle nothing refers to any more.
FreeSockets == { s \in SocketIds : sockets[s] \in {"none", "closed"} /\ s # hookWs }
FreeTimers == { t \in TimerIds : timers[t] = 0 }

\* The points the /live stream and /api/devices/:id/latest deliver here.
WsPoints ==
    { Pt("d1", "", "2024-05-01T10:00:00Z", 1, 1, "undefined", 90),
      Pt("d1", "", "2024-05-01T10:01:00Z", 1, 1, "undefined", 90),
      Pt("d1", "", "2024-05-01T10:02:00Z", 1, 2, "undefined", 90),
      Pt("d2", "", "2024-05-01T10:01:00Z", 5, 5, "undefined", 50),
      Pt("",   "", "2024-05-01T10:02:00Z", 5, 5, "undefined", 50) }

\* The frames of the stream: JSON text that parses to a message, or not.
NoFrame == [type |-> "none", data |-> Pt("", "", "", 0, 0, "undefined", 0)]

Frames ==
    [type : {"uplink", "telemetry"}, data : WsPoints]
      \cup { [type |-> "alert", data |-> Pt("", "", "", 0, 0, "undefined", 0)],
             [type |-> "hello", data |-> Pt("", "", "", 0, 0, "undefined", 0)],
             [type |-> "malformed", data |-> Pt("", "", "", 0, 0, "undefined", 0)],
             [type |-> "null", data |-> Pt("", "", "", 0, 0, "undefined", 0)] }

hookVars ==
    <<retryCount, retryTimeout, isMounted, hookUp, hookWs, sockets, timers,
      wsStatus, setups, failures>>
wsStoreVars == <<pointsByDeviceWs, loadStatus, loadsInFlight>>
dashWsVars ==
    <<wsRef, reconnectTimerRef, dashStatus, dashSockets, dashTimers,
      stoppedRuns, dashRun, dashUp, dashFailures>>
chainVars == <<chains, superseded, stale, lastEnd>>
dashDataVars ==
    <<chainVars, devices, unclaimed, geofences, dashLoadStatus>>
alertVars == <<incomingAlert, toastAlert, toastTimers>>
hostVars == <<uncaught, frameLog, lastFrame>>
motionVars == <<motionPts, motionNow, motionOut>>
sessionVars == <<claimingId, geofenceBusy, opRequest, opResult, loggedOut>>
viewVars == <<selectedDevice, keyOrder, alertCenter, view>>
storeBVars == <<pointsByDeviceB, loadThrew>>
appVars == <<app, storage>>
envVars == <<serverUp>>
pollVars == <<pollRun, pollUp>>
outerVars == <<viewVars, storeBVars, appVars, envVars, pollVars>>

\* connect (1578-1614) past its isMounted guard, creating socket s.
ConnectBody(s) ==
    /\ wsStatus' = IF retryCount = 0 THEN "connecting" ELSE "reconnecting"
    /\ sockets' = [sockets EXCEPT ![s] = "connecting"]

\* useEffect body (1617-1618): isMounted.current = true; const ws = connect()
EffectSetup ==
    /\ ~hookUp
    /\ setups < MaxSetups
    /\ \E s \in FreeSockets :
         /\ s = CHOOSE x \in FreeSockets : \A y \in FreeSockets : x <= y
         /\ ConnectBody(s)
         /\ hookWs' = s
    /\ isMounted' = TRUE
    /\ hookUp' = TRUE
    /\ setups' = setups + 1
    /\ UNCHANGED <<retryCount, retryTimeout, timers, failures>>
    /\ UNCHANGED <<pointsByDevice, wsStoreVars, hostVars, motionVars, outerVars, sessionVars,
                   dashWsVars, dashDataVars, alertVars>>

\* The cleanup (1619-1623): isMounted.current = false; clearTimeout of the
\* handle in retryTimeout; ws?.close() on the socket of this effect run.
CloseSocket(socks, s) ==
    IF s # 0 /\ Live(socks[s]) THEN [socks EXCEPT ![s] = "closing"] ELSE socks

EffectCleanup ==
    /\ hookUp
    /\ isMounted' = FALSE
    /\ timers' = IF retryTimeout # 0
                 THEN [timers EXCEPT ![retryTimeout] = 0] ELSE timers
    /\ sockets' = CloseSocket(sockets, hookWs)
    /\ hookUp' = FALSE
    /\ UNCHANGED <<retryCount, retryTimeout, hookWs, wsStatus, setups, failures>>
    /\ UNCHANGED <<pointsByDevice, wsStoreVars, hostVars, motionVars, outerVars, sessionVars,
                   dashWsVars, dashDataVars, alertVars>>

\* A reconnect timer that fires without calling connect()
TimerFireNoConnect(t) ==
    /\ timers[t] # 0
    /\ timers' = [timers EXCEPT ![t] = 0]
    /\ UNCHANGED <<wsStatus, sockets>>
    /\ UNCHANGED <<retryCount, retryTimeout, isMounted, hookUp, hookWs,
                   setups, failures>>
    /\ UNCHANGED <<pointsByDevice, wsStoreVars, hostVars, motionVars, outerVars, sessionVars,
                   dashWsVars, dashDataVars, alertVars>>

\* A reconnect timer fires: connect() (1578-1614); the socket it returns is
\* kept by nobody.
TimerFire(t) ==
    /\ timers[t] # 0
    /\ timers' = [timers EXCEPT ![t] = 0]
    /\ IF isMounted
       THEN \E s \in FreeSockets :
              /\ s = CHOOSE x \in FreeSockets : \A y \in FreeSockets : x <= y
              /\ ConnectBody(s)
       ELSE UNCHANGED <<wsStatus, sockets>>
    /\ UNCHANGED <<retryCount, retryTimeout, isMounted, hookUp, hookWs,
                   setups, failures>>
    /\ UNCHANGED <<pointsByDevice, wsStoreVars, hostVars, motionVars, outerVars, sessionVars,
                   dashWsVars, dashDataVars, alertVars>>

\* ws.onopen without the line retryCount.current = 0
OnOpenNoReset(s) ==
    /\ sockets[s] = "connecting"
    /\ sockets' = [sockets EXCEPT ![s] = "open"]
    /\ IF isMounted
       THEN /\ retryCount' = retryCount
            /\ wsStatus' = "connected"
            /\ failures' = 0
       ELSE UNCHANGED <<retryCount, wsStatus, failures>>
    /\ UNCHANGED <<retryTimeout, isMounted, hookUp, hookWs, timers, setups>>
    /\ UNCHANGED <<pointsByDevice, wsStoreVars, hostVars, motionVars, outerVars, sessionVars,
                   dashWsVars, dashDataVars, alertVars>>

\* ws.onopen (1584-1588)
OnOpen(s) ==
    /\ sockets[s] = "connecting"
    /\ sockets' = [sockets EXCEPT ![s] = "open"]
    /\ IF isMounted
       THEN /\ retryCount' = 0
            /\ wsStatus' = "connected"
            /\ failures' = 0
       ELSE UNCHANGED <<retryCount, wsStatus, failures>>
    /\ UNCHANGED <<retryTimeout, isMounted, hookUp, hookWs, timers, setups>>
    /\ UNCHANGED <<pointsByDevice, wsStoreVars, hostVars, motionVars, outerVars, sessionVars,
                   dashWsVars, dashDataVars, alertVars>>

\* ws.onerror (1599); the browser dispatches close after error.
OnError(s) ==
    /\ Live(sockets[s])
    /\ sockets' = [sockets EXCEPT ![s] = "closing"]
    /\ wsStatus' = IF isMounted THEN "error" ELSE wsStatus
    /\ UNCHANGED <<retryCount, retryTimeout, isMounted, hookUp, hookWs,
                   timers, setups, failures>>
    /\ UNCHANGED <<pointsByDevice, wsStoreVars, hostVars, motionVars, outerVars, sessionVars,
                   dashWsVars, dashDataVars, alertVars>>

\* ws.onclose (1601-1611)
OnClose(s) ==
    /\ sockets[s] \in {"connecting", "open", "closing"}
    /\ sockets' = [sockets EXCEPT ![s] = "closed"]
    /\ IF ~isMounted
       THEN UNCHANGED <<retryCount, retryTimeout, timers, wsStatus, failures>>
       ELSE /\ failures' = failures + 1
            /\ IF retryCount < WS_MAX_RETRIES
               THEN \E t \in FreeTimers :
                      /\ t = CHOOSE x \in FreeTimers : \A y \in FreeTimers : x <= y
                      /\ timers' = [timers EXCEPT ![t] = BackoffDelay(retryCount)]
                      /\ retryCount' = retryCount + 1
                      /\ wsStatus' = "reconnecting"
                      /\ retryTimeout' = t
               ELSE /\ wsStatus' = "closed"
                    /\ UNCHANGED <<retryCount, retryTimeout, timers>>
    /\ UNCHANGED <<isMounted, hookUp, hookWs, setups>>
    /\ UNCHANGED <<pointsByDevice, wsStoreVars, hostVars, motionVars, outerVars, sessionVars,
                   dashWsVars, dashDataVars, alertVars>>

\* From now on the backend accepts every connection to /live.
ServerComesUp ==
    /\ ~serverUp
    /\ serverUp' = TRUE
    /\ UNCHANGED <<pointsByDevice, hookVars, wsStoreVars, hostVars, motionVars,
                   sessionVars, dashWsVars, dashDataVars, alertVars, viewVars,
                   storeBVars, appVars, pollVars>>

\* loadInitial (1663-1692) up to its first await: setLoadStatus("loading").
LoadInitialStart ==
    /\ loadStatus' = "loading"
    /\ loadsInFlight' = loadsInFlight + 1

\* [...existing, p].slice(-100)
StreamAppend(existing, p) == SliceLast(Append(existing, p), StreamCap)

\* handleMessage (1698-1710)
HandleMessage(msg) ==
    IF msg.type = "uplink"
    THEN /\ pointsByDeviceWs' =
               IF msg.data.deviceId = "" THEN pointsByDeviceWs
               ELSE [pointsByDeviceWs EXCEPT ![msg.data.deviceId] =
                        StreamAppend(@, msg.data)]
         /\ UNCHANGED <<loadStatus, loadsInFlight>>
    ELSE IF msg.type = "alert"
    THEN /\ LoadInitialStart
         /\ UNCHANGED pointsByDeviceWs
    ELSE UNCHANGED wsStoreVars

\* JSON.parse(event.data) (1593) throws a SyntaxError on text that is no JSON.
ParseThrows(frame) == frame.type = "malformed"

\* onMessage(msg) (1593, 1699) throws a TypeError on the JSON value null.
HandlerThrows(frame) == frame.type = "null"

\* The try of 1592-1596 encloses the parse and the handler.
NoTryCatch == FALSE
TryCatch == TRUE

\* An uplink frame that handleMessage stores.
Stored(frame) == frame.type = "uplink" /\ frame.data.deviceId # ""

\* ws.onmessage (1590-1597)
OnMessage(s, frame) ==
    /\ sockets[s] = "open"
    /\ frame.type = "alert" => loadsInFlight < MaxLoads
    /\ IF ~isMounted
       THEN UNCHANGED <<wsStoreVars, hostVars>>
       ELSE IF ParseThrows(frame) \/ HandlerThrows(frame)
       THEN /\ UNCHANGED wsStoreVars
            /\ uncaught' = (uncaught \/ ~TryCatch)
            /\ frameLog' = "dropped"
            /\ lastFrame' = frame
       ELSE /\ HandleMessage(frame)
            /\ uncaught' = uncaught
            /\ lastFrame' = frame
            /\ frameLog' = IF frameLog = "dropped" /\ Stored(frame)
                           THEN "processed" ELSE frameLog
    /\ UNCHANGED <<pointsByDevice, hookVars, dashWsVars, dashDataVars, alertVars,
                   motionVars, outerVars, sessionVars>>

\* useEffect(() => { loadInitial() }, [loadInitial]) (1694-1696): on mount,
\* and again when the token read from localStorage changes.
LoadInitialEffect ==
    /\ loadsInFlight < MaxLoads
    /\ LoadInitialStart
    /\ UNCHANGED <<pointsByDevice, pointsByDeviceWs, hookVars, dashWsVars,
                   dashDataVars, alertVars, hostVars, motionVars, outerVars, sessionVars>>

\* The responses of a loadInitial arrive (1666-1687): seeded holds the
\* latest point of each device that answered with one.
Seeds ==
    { seeded \in [Devices -> SUBSET WsPoints] :
        \A id \in Devices :
            /\ Cardinality(seeded[id]) <= 1
            /\ \A p \in seeded[id] : p.deviceId = id }

RECURSIVE SetToSeq(_)
SetToSeq(S) ==
    IF S = {} THEN <<>>
    ELSE LET x == CHOOSE y \in S : TRUE IN <<x>> \o SetToSeq(S \ {x})

LoadInitialDone(seeded) ==
    /\ loadsInFlight > 0
    /\ loadsInFlight' = loadsInFlight - 1
    /\ pointsByDeviceWs' = [id \in Devices |-> SetToSeq(seeded[id])]
    /\ loadStatus' = "ready"
    /\ UNCHANGED <<pointsByDevice, hookVars, dashWsVars, dashDataVars, alertVars,
                   hostVars, motionVars, outerVars, sessionVars>>

\* fetch or r.json() of /api/devices rejects (1688-1691).
LoadInitialFail ==
    /\ loadsInFlight > 0
    /\ loadsInFlight' = loadsInFlight - 1
    /\ loadStatus' = "error"
    /\ UNCHANGED <<pointsByDevice, pointsByDeviceWs, hookVars, dashWsVars,
                   dashDataVars, alertVars, hostVars, motionVars, outerVars, sessionVars>>

(***************************************************************************)
(* The Dashboard of Dashboard.tsx:167: REST loads (189-261), the WebSocket *)
(* effect with its stopped flag (420-497); and the connectWs callback of   *)
(* the Dashboard of part_002:584 (751-792), which has no such flag.        *)
(***************************************************************************)
DashSocketIds == 1..MaxSockets
DashTimerIds == 1..MaxTimers
ChainIds == 1..MaxChains
AlertIds == {"a1", "a2"}

NoSocket == [state |-> "none", run |-> 0]
NoChain == [origin |-> "none", step |-> "none", run |-> 0]
NoEnd == [origin |-> "none", step |-> "none", ok |-> TRUE]

\* The steps whose setter replaces a list by the response: setDevices (216)
\* and setUnclaimed (221).
ListSteps == {"devices", "unclaimed"}

\* The text frames of /api/live as ws.onmessage tells them apart.
DashFrames ==
    [type : {"alert"}, id : AlertIds]
      \cup [type : {"uplink", "hello", "malformed", "binary"}, id : {"none"}]

\* The arrays the REST endpoints answer with.
DeviceLists == { <<>>, <<"d1">>, <<"d1", "d2">> }
GeofenceLists == { <<>>, <<"g1">> }
DashBatches ==
    { <<>>,
      <<Pt("d1", "2024-05-01T10:01:00Z", "", 1, 1, "8", 90)>>,
      <<Pt("d1", "2024-05-01T10:02:00Z", "", 1, 2, "9", 90)>> }

DashLive(s) == Live(dashSockets[s].state)
FreeDashSockets ==
    { s \in DashSocketIds :
        dashSockets[s].state \in {"none", "closed"} /\ s # wsRef }
FreeChains == { c \in ChainIds : chains[c] = NoChain }

Least(S) == CHOOSE x \in S : \A y \in S : x <= y

\* wsRef.current.close() then new WebSocket (427-435), by effect run r.
DashReplaceSocket(s, r) ==
    /\ dashSockets' =
         [x \in DashSocketIds |->
            IF x = s THEN [state |-> "connecting", run |-> r]
            ELSE IF x = wsRef /\ DashLive(x)
                 THEN [dashSockets[x] EXCEPT !.state = "closing"]
                 ELSE dashSockets[x]]
    /\ wsRef' = s

\* connect() of the effect (423-488) past its stopped guard.
DashConnect(r) ==
    /\ FreeDashSockets # {}
    /\ DashReplaceSocket(Least(FreeDashSockets), r)
    /\ dashStatus' = IF dashStatus = "connected" THEN "reconnecting"
                     ELSE "connecting"

\* connectWs (part_002:751-784)
CwConnect ==
    /\ FreeDashSockets # {}
    /\ DashReplaceSocket(Least(FreeDashSockets), dashRun)
    /\ dashStatus' = "connecting"

\* useEffect body (421, 490): let stopped = false; connect()
DashEffectSetup ==
    /\ ~dashUp
    /\ dashRun < MaxSetups
    /\ dashRun' = dashRun + 1
    /\ dashUp' = TRUE
    /\ DashConnect(dashRun + 1)
    /\ UNCHANGED <<reconnectTimerRef, dashTimers, stoppedRuns, dashFailures>>
    /\ UNCHANGED <<pointsByDevice, hookVars, wsStoreVars, hostVars, motionVars, outerVars,
                   sessionVars, dashDataVars, alertVars>>

\* The cleanup shared by both versions (494-495, part_002:789-790).
CleanupRefs ==
    /\ dashTimers' = IF reconnectTimerRef # 0
                     THEN [dashTimers EXCEPT ![reconnectTimerRef] = 0]
                     ELSE dashTimers
    /\ dashSockets' =
         IF wsRef # 0 /\ DashLive(wsRef)
         THEN [dashSockets EXCEPT ![wsRef].state = "closing"]
         ELSE dashSockets

\* The cleanup (492-496): stopped = true, then the refs.
DashEffectCleanup ==
    /\ dashUp
    /\ dashUp' = FALSE
    /\ stoppedRuns' = stoppedRuns \cup {dashRun}
    /\ CleanupRefs
    /\ UNCHANGED <<wsRef, reconnectTimerRef, dashStatus, dashRun, dashFailures>>
    /\ UNCHANGED <<pointsByDevice, hookVars, wsStoreVars, hostVars, motionVars, outerVars,
                   sessionVars, dashDataVars, alertVars>>

\* window.setTimeout(() => connect(), 1500) fires (482, 424).
DashTimerFire(t) ==
    /\ dashTimers[t] # 0
    /\ dashTimers' = [dashTimers EXCEPT ![t] = 0]
    /\ IF dashTimers[t] \in stoppedRuns
       THEN UNCHANGED <<wsRef, dashStatus, dashSockets>>
       ELSE DashConnect(dashTimers[t])
    /\ UNCHANGED <<reconnectTimerRef, stoppedRuns, dashRun, dashUp, dashFailures>>
    /\ UNCHANGED <<pointsByDevice, hookVars, wsStoreVars, hostVars, motionVars, outerVars,
                   sessionVars, dashDataVars, alertVars>>

\* ws.onopen (437-440)
DashOnOpen(s) ==
    /\ dashSockets[s].state = "connecting"
    /\ dashSockets' = [dashSockets EXCEPT ![s].state = "open"]
    /\ IF dashSockets[s].run \in stoppedRuns
       THEN UNCHANGED <<dashStatus, dashFailures>>
       ELSE dashStatus' = "connected" /\ dashFailures' = 0
    /\ UNCHANGED <<wsRef, reconnectTimerRef, dashTimers, stoppedRuns, dashRun, dashUp>>
    /\ UNCHANGED <<pointsByDevice, hookVars, wsStoreVars, hostVars, motionVars, outerVars,
                   sessionVars, dashDataVars, alertVars>>

\* ws.onerror (473-476); the browser dispatches close after error.
DashOnError(s) ==
    /\ DashLive(s)
    /\ dashSockets' = [dashSockets EXCEPT ![s].state = "closing"]
    /\ dashStatus' = IF dashSockets[s].run \in stoppedRuns THEN dashStatus
                     ELSE "error"
    /\ UNCHANGED <<wsRef, reconnectTimerRef, dashTimers, stoppedRuns, dashRun,
                   dashUp, dashFailures>>
    /\ UNCHANGED <<pointsByDevice, hookVars, wsStoreVars, hostVars, motionVars, outerVars,
                   sessionVars, dashDataVars, alertVars>>

\* clearTimeout(reconnectTimerRef.current); reconnectTimerRef.current =
\* setTimeout(..., 1500) (481-482), for effect run r.
ScheduleReconnect(r) ==
    LET cleared == IF reconnectTimerRef # 0
                   THEN [dashTimers EXCEPT ![reconnectTimerRef] = 0]
                   ELSE dashTimers
        free == { t \in DashTimerIds : cleared[t] = 0 }
    IN  /\ dashTimers' = [cleared EXCEPT ![Least(free)] = r]
        /\ reconnectTimerRef' = Least(free)

\* ws.onclose (478-483)
DashOnClose(s) ==
    /\ dashSockets[s].state \in {"connecting", "open", "closing"}
    /\ dashFailures < MaxFailures
    /\ dashSockets' = [dashSockets EXCEPT ![s].state = "closed"]
    /\ IF dashSockets[s].run \in stoppedRuns
       THEN UNCHANGED <<dashStatus, reconnectTimerRef, dashTimers, dashFailures>>
       ELSE /\ dashStatus' = "reconnecting"
            /\ ScheduleReconnect(dashSockets[s].run)
            /\ dashFailures' = dashFailures + 1
    /\ UNCHANGED <<wsRef, stoppedRuns, dashRun, dashUp>>
    /\ UNCHANGED <<pointsByDevice, hookVars, wsStoreVars, hostVars, motionVars, outerVars,
                   sessionVars, dashDataVars, alertVars>>

\* Sequence c sends its fetch of step: the fetches of the same list that
\* other sequences await were sent before it.
Supersede(c, step) ==
    IF step \in ListSteps
    THEN (superseded \ {c})
           \cup { d \in ChainIds \ {c} : chains[d].step = step }
    ELSE superseded \ {c}

\* A load sequence starts with its first fetch in flight.
StartChain(origin, step, r) ==
    /\ FreeChains # {}
    /\ chains' = [chains EXCEPT ![Least(FreeChains)] =
                     [origin |-> origin, step |-> step, run |-> r]]
    /\ superseded' = Supersede(Least(FreeChains), step)
    /\ UNCHANGED <<stale, lastEnd>>

\* ws.onmessage without the test of msg.type (450)
DashOnMessageAnyAlert(s, frame) ==
    /\ dashSockets[s].state = "open"
    /\ incomingAlert' = frame.id
    /\ toastAlert' = frame.id
    /\ toastTimers' = toastTimers \cup {frame.id}
    /\ StartChain("ws", "latest", dashSockets[s].run)
    /\ UNCHANGED <<devices, unclaimed, geofences, dashLoadStatus>>
    /\ UNCHANGED <<pointsByDevice, hookVars, wsStoreVars, hostVars, motionVars, outerVars,
                   sessionVars, dashWsVars>>

\* ws.onmessage (442-471): an alert frame sets the alert and its toast; every
\* frame then runs loadLatestPoints, loadDevices, loadUnclaimed.
DashOnMessage(s, frame) ==
    /\ dashSockets[s].state = "open"
    /\ IF frame.type = "alert"
       THEN /\ incomingAlert' = frame.id
            /\ toastAlert' = frame.id
            /\ toastTimers' = toastTimers \cup {frame.id}
       ELSE UNCHANGED alertVars
    /\ StartChain("ws", "latest", dashSockets[s].run)
    /\ UNCHANGED <<devices, unclaimed, geofences, dashLoadStatus>>
    /\ UNCHANGED <<pointsByDevice, hookVars, wsStoreVars, hostVars, motionVars, outerVars,
                   sessionVars, dashWsVars>>

\* The toast timer of 456-458 fires.
ToastTimerFire(a) ==
    /\ a \in toastTimers
    /\ toastTimers' = toastTimers \ {a}
    /\ toastAlert' = IF toastAlert = a THEN "none" ELSE toastAlert
    /\ UNCHANGED incomingAlert
    /\ UNCHANGED <<pointsByDevice, hookVars, wsStoreVars, hostVars, motionVars, outerVars,
                   sessionVars, dashWsVars, dashDataVars>>

\* The order of the awaits: ws.onmessage (465-467), claimDevice (281-283),
\* deleteGeofence and createGeofence (305, 333), and the initial load and the
\* poll (389-392, 404-407).
NextStep(origin, step) ==
    IF origin = "ws"
    THEN CASE step = "latest" -> "devices"
           [] step = "devices" -> "unclaimed"
           [] OTHER -> "done"
    ELSE IF origin = "claim"
    THEN CASE step = "devices" -> "unclaimed"
           [] step = "unclaimed" -> "latest"
           [] OTHER -> "done"
    ELSE IF origin = "geofence"
    THEN "done"
    ELSE CASE step = "devices" -> "unclaimed"
           [] step = "unclaimed" -> "latest"
           [] step = "latest" -> "geofences"
           [] OTHER -> "done"

\* After the setter of a step: the next fetch goes out, or the sequence ends.
Advance(c) ==
    LET ch == chains[c]
        nxt == NextStep(ch.origin, ch.step)
    IN  /\ chains' = [chains EXCEPT ![c] =
                         IF nxt = "done" THEN NoChain
                         ELSE [ch EXCEPT !.step = nxt]]
        /\ superseded' = Supersede(c, nxt)
        /\ stale' = IF ch.step \notin ListSteps THEN stale
                    ELSE IF c \in superseded THEN stale \cup {ch.step}
                    ELSE stale \ {ch.step}
        /\ lastEnd' = IF nxt = "done"
                      THEN [origin |-> ch.origin, step |-> ch.step, ok |-> TRUE]
                      ELSE lastEnd

\* The awaited fetch of chain c throws: the rest of the sequence is skipped.
Abandon(c) ==
    /\ chains' = [chains EXCEPT ![c] = NoChain]
    /\ superseded' = superseded \ {c}
    /\ lastEnd' = [origin |-> chains[c].origin, step |-> chains[c].step,
                   ok |-> FALSE]
    /\ UNCHANGED stale

\* A sequence of any origin that sets loadStatus where it ends
SetLoadStatusAnyOrigin(c, ok) ==
    LET ch == chains[c]
        ends == ~ok \/ NextStep(ch.origin, ch.step) = "done"
    IN  dashLoadStatus' =
          IF ends /\ pollUp /\ ch.run = pollRun
          THEN (IF ok THEN "ready" ELSE "error")
          ELSE dashLoadStatus

\* The end of the initial load (393-399): setLoadStatus("ready") after the
\* four loads, setLoadStatus("error") in the catch, unless mounted is false.
SetLoadStatus(c, ok) ==
    LET ch == chains[c]
        ends == ~ok \/ NextStep(ch.origin, ch.step) = "done"
    IN  dashLoadStatus' =
          IF ch.origin = "initial" /\ ends /\ pollUp /\ ch.run = pollRun
          THEN (IF ok THEN "ready" ELSE "error")
          ELSE dashLoadStatus

\* The sequence of chain c ends after this step (ok: with its last setter,
\* otherwise with an exception): the finally of claimDevice (284-286)
\* clears claimingId and its promise settles; deleteGeofence and
\* createGeofence catch the exception (306-310, 334-338).
Settle(c, ok) ==
    LET ch == chains[c]
        ends == ~ok \/ NextStep(ch.origin, ch.step) = "done"
    IN  IF ends /\ ch.origin = "claim"
        THEN /\ claimingId' = ""
             /\ opResult' = IF ok THEN "resolved" ELSE "rejected"
             /\ UNCHANGED <<geofenceBusy, opRequest>>
        ELSE IF ends /\ ch.origin = "geofence"
        THEN /\ geofenceBusy' = FALSE
             /\ opResult' = "resolved"
             /\ UNCHANGED <<claimingId, opRequest>>
        ELSE UNCHANGED <<claimingId, geofenceBusy, opRequest, opResult>>

\* loadDevices (214-217): GET /api/devices answers 2xx with list.
LoadDevicesOk(c, list) ==
    /\ chains[c].step = "devices"
    /\ devices' = list
    /\ Advance(c)
    /\ SetLoadStatus(c, TRUE)
    /\ UNCHANGED <<unclaimed, geofences>>
    /\ UNCHANGED <<pointsByDevice, hookVars, wsStoreVars, hostVars, motionVars, outerVars,
                   dashWsVars, alertVars>>
    /\ Settle(c, TRUE)
    /\ UNCHANGED loggedOut

\* loadUnclaimed (219-222)
LoadUnclaimedOk(c, list) ==
    /\ chains[c].step = "unclaimed"
    /\ unclaimed' = list
    /\ Advance(c)
    /\ SetLoadStatus(c, TRUE)
    /\ UNCHANGED <<devices, geofences>>
    /\ UNCHANGED <<pointsByDevice, hookVars, wsStoreVars, hostVars, motionVars, outerVars,
                   dashWsVars, alertVars>>
    /\ Settle(c, TRUE)
    /\ UNCHANGED loggedOut

\* loadLatestPoints (224-256): the response is merged into the store.
LoadLatestPointsOk(c, data) ==
    /\ chains[c].step = "latest"
    /\ pointsByDevice' = MergeStore(pointsByDevice, data)
    /\ Advance(c)
    /\ SetLoadStatus(c, TRUE)
    /\ UNCHANGED <<devices, unclaimed, geofences>>
    /\ UNCHANGED <<hookVars, wsStoreVars, hostVars, motionVars, outerVars,
                   dashWsVars, alertVars>>
    /\ Settle(c, TRUE)
    /\ UNCHANGED loggedOut

\* loadGeofences (258-261)
LoadGeofencesOk(c, list) ==
    /\ chains[c].step = "geofences"
    /\ geofences' = list
    /\ Advance(c)
    /\ SetLoadStatus(c, TRUE)
    /\ UNCHANGED <<devices, unclaimed>>
    /\ UNCHANGED <<pointsByDevice, hookVars, wsStoreVars, hostVars, motionVars, outerVars,
                   dashWsVars, alertVars>>
    /\ Settle(c, TRUE)
    /\ UNCHANGED loggedOut

\* The awaited fetch of chain c rejects, or answers a status other than 2xx
\* and 401: fetchJson throws (204-207) and the catch of the sequence ends it
\* (468-470).
RestFail(c) ==
    /\ chains[c] # NoChain
    /\ Abandon(c)
    /\ SetLoadStatus(c, FALSE)
    /\ UNCHANGED <<devices, unclaimed, geofences>>
    /\ UNCHANGED <<pointsByDevice, hookVars, wsStoreVars, hostVars, motionVars, outerVars,
                   dashWsVars, alertVars>>
    /\ Settle(c, FALSE)
    /\ UNCHANGED loggedOut

\* The awaited fetch of chain c answers 401: fetchJson calls onLogout and
\* throws (197-202).
RestUnauthorized(c) ==
    /\ chains[c] # NoChain
    /\ loggedOut' = TRUE
    /\ Abandon(c)
    /\ SetLoadStatus(c, FALSE)
    /\ UNCHANGED <<devices, unclaimed, geofences>>
    /\ UNCHANGED <<pointsByDevice, hookVars, wsStoreVars, hostVars, motionVars, outerVars,
                   dashWsVars, alertVars>>
    /\ Settle(c, FALSE)

\* The status codes a response is drawn from.
HttpStatuses == {200, 401, 500}

\* A user operation starts with its fetch in flight.
OpStart(op) ==
    /\ opRequest = "none"
    /\ opResult # "pending"
    /\ opRequest' = op
    /\ opResult' = "pending"

\* claimDevice (263-274) up to its fetch
ClaimDevice(id) ==
    /\ OpStart("claim")
    /\ claimingId' = id
    /\ UNCHANGED <<geofenceBusy, loggedOut>>
    /\ UNCHANGED <<pointsByDevice, hookVars, wsStoreVars, hostVars, motionVars, outerVars,
                   dashWsVars, alertVars>>
    /\ UNCHANGED dashDataVars

\* claimDevice (276-286): the POST answers with status.
ClaimResponse(status) ==
    /\ opRequest = "claim"
    /\ opRequest' = "none"
    /\ IF status = 200
       THEN /\ StartChain("claim", "devices", 0)
            /\ UNCHANGED <<claimingId, opResult>>
       ELSE /\ claimingId' = ""
            /\ opResult' = "rejected"
            /\ UNCHANGED chainVars
    /\ UNCHANGED <<geofenceBusy, loggedOut>>
    /\ UNCHANGED <<devices, unclaimed, geofences, dashLoadStatus>>
    /\ UNCHANGED <<pointsByDevice, hookVars, wsStoreVars, hostVars, motionVars, outerVars,
                   dashWsVars, alertVars>>

\* deleteGeofence (291-298) up to its fetch
DeleteGeofence ==
    /\ OpStart("deleteGeofence")
    /\ geofenceBusy' = TRUE
    /\ UNCHANGED <<claimingId, loggedOut>>
    /\ UNCHANGED <<pointsByDevice, hookVars, wsStoreVars, hostVars, motionVars, outerVars,
                   dashWsVars, alertVars>>
    /\ UNCHANGED dashDataVars

\* createGeofence (315-326) up to its fetch
CreateGeofence ==
    /\ OpStart("createGeofence")
    /\ geofenceBusy' = TRUE
    /\ UNCHANGED <<claimingId, loggedOut>>
    /\ UNCHANGED <<pointsByDevice, hookVars, wsStoreVars, hostVars, motionVars, outerVars,
                   dashWsVars, alertVars>>
    /\ UNCHANGED dashDataVars

\* deleteGeofence (300-310) and createGeofence (328-338): the request
\* answers with status; the catch logs the exception of a status that is
\* not ok.
GeofenceResponse(status) ==
    /\ opRequest \in {"deleteGeofence", "createGeofence"}
    /\ opRequest' = "none"
    /\ IF status = 200
       THEN /\ StartChain("geofence", "geofences", 0)
            /\ UNCHANGED <<geofenceBusy, opResult>>
       ELSE /\ geofenceBusy' = FALSE
            /\ opResult' = "resolved"
            /\ UNCHANGED chainVars
    /\ UNCHANGED <<claimingId, loggedOut>>
    /\ UNCHANGED <<devices, unclaimed, geofences, dashLoadStatus>>
    /\ UNCHANGED <<pointsByDevice, hookVars, wsStoreVars, hostVars, motionVars, outerVars,
                   dashWsVars, alertVars>>

\* part_002:786-787: connectWs()
CwEffectSetup ==
    /\ ~dashUp
    /\ dashRun < MaxSetups
    /\ dashRun' = dashRun + 1
    /\ dashUp' = TRUE
    /\ FreeDashSockets # {}
    /\ DashReplaceSocket(Least(FreeDashSockets), dashRun + 1)
    /\ dashStatus' = "connecting"
    /\ UNCHANGED <<reconnectTimerRef, dashTimers, stoppedRuns, dashFailures>>
    /\ UNCHANGED <<pointsByDevice, hookVars, wsStoreVars, hostVars, motionVars, outerVars,
                   sessionVars, dashDataVars, alertVars>>

\* part_002:788-791: the cleanup
CwEffectCleanup ==
    /\ dashUp
    /\ dashUp' = FALSE
    /\ CleanupRefs
    /\ UNCHANGED <<wsRef, reconnectTimerRef, dashStatus, stoppedRuns, dashRun,
                   dashFailures>>
    /\ UNCHANGED <<pointsByDevice, hookVars, wsStoreVars, hostVars, motionVars, outerVars,
                   sessionVars, dashDataVars, alertVars>>

\* part_002:778: the reconnect timer fires, connectWs()
CwTimerFire(t) ==
    /\ dashTimers[t] # 0
    /\ dashTimers' = [dashTimers EXCEPT ![t] = 0]
    /\ CwConnect
    /\ UNCHANGED <<reconnectTimerRef, stoppedRuns, dashRun, dashUp, dashFailures>>
    /\ UNCHANGED <<pointsByDevice, hookVars, wsStoreVars, hostVars, motionVars, outerVars,
                   sessionVars, dashDataVars, alertVars>>

\* part_002:763: ws.onopen
CwOnOpen(s) ==
    /\ dashSockets[s].state = "connecting"
    /\ dashSockets' = [dashSockets EXCEPT ![s].state = "open"]
    /\ dashStatus' = "connected"
    /\ UNCHANGED <<wsRef, reconnectTimerRef, dashTimers, stoppedRuns, dashRun,
                   dashUp, dashFailures>>
    /\ UNCHANGED <<pointsByDevice, hookVars, wsStoreVars, hostVars, motionVars, outerVars,
                   sessionVars, dashDataVars, alertVars>>

\* part_002:773: ws.onerror
CwOnError(s) ==
    /\ DashLive(s)
    /\ dashSockets' = [dashSockets EXCEPT ![s].state = "closing"]
    /\ dashStatus' = "error"
    /\ UNCHANGED <<wsRef, reconnectTimerRef, dashTimers, stoppedRuns, dashRun,
                   dashUp, dashFailures>>
    /\ UNCHANGED <<pointsByDevice, hookVars, wsStoreVars, hostVars, motionVars, outerVars,
                   sessionVars, dashDataVars, alertVars>>

\* part_002:775-779: ws.onclose
CwOnClose(s) ==
    /\ dashSockets[s].state \in {"connecting", "open", "closing"}
    /\ dashSockets' = [dashSockets EXCEPT ![s].state = "closed"]
    /\ dashStatus' = "reconnecting"
    /\ ScheduleReconnect(dashSockets[s].run)
    /\ UNCHANGED <<wsRef, stoppedRuns, dashRun, dashUp, dashFailures>>
    /\ UNCHANGED <<pointsByDevice, hookVars, wsStoreVars, hostVars, motionVars, outerVars,
                   sessionVars, dashDataVars, alertVars>>

\* part_002:765-771: ws.onmessage
CwOnMessage(s) ==
    /\ dashSockets[s].state = "open"
    /\ StartChain("ws", "latest", dashSockets[s].run)
    /\ UNCHANGED <<devices, unclaimed, geofences, dashLoadStatus>>
    /\ UNCHANGED <<pointsByDevice, hookVars, wsStoreVars, hostVars, motionVars, outerVars,
                   sessionVars, dashWsVars, alertVars>>

(***************************************************************************)
(* The motion classifier, motionByDevice (Dashboard.tsx:501-554).          *)
(***************************************************************************)
MOVEMENT_THRESHOLD_M == 25
RECENT_WINDOW_MS == 300000
MAX_GAP_MS == 90000
\* MIN_SPEED_MPS = 0.6, in mm/s
MIN_SPEED_MMPS == 600

\* haversineMeters (111-124) of two points on one meridian: dLon = 0, so
\* h = sin(dLat/2)^2 and the result is R * |dLat|.  The latitudes of the
\* classifier's points are in units of 1 m of arc.
haversineMeters(a, b) ==
    IF ToNumber(b.lat) >= ToNumber(a.lat)
    THEN ToNumber(b.lat) - ToNumber(a.lat)
    ELSE ToNumber(a.lat) - ToNumber(b.lat)

\* d / (dt / 1000) > MIN_SPEED_MPS; d / 0 is Infinity for d > 0 and NaN for 0.
SpeedExceeds(d, dt) == d * 1000000 > MIN_SPEED_MMPS * dt

\* sorted[i] of JavaScript (0-based i): undefined outside the array.
Undefined == Pt("<undefined>", "", "", 0, 0, "undefined", 0)
At(s, i) == IF i + 1 \in 1..Len(s) THEN s[i + 1] ELSE Undefined

\* !pts || pts.length < 3 (506)
TooFewOffByOne(pts) == Len(pts) < 2
TooFew(pts) == Len(pts) < 3

\* !t1 || !t2 || !t3 (520)
TimeMissing(t1, t2, t3) == t1 = 0 \/ t2 = 0 \/ t3 = 0

\* now - t3 > RECENT_WINDOW_MS (525)
Stale(now, t3) == now - t3 > RECENT_WINDOW_MS

\* dt12 > MAX_GAP_MS || dt23 > MAX_GAP_MS || dt12 <= 0 || dt23 <= 0 (533)
GapTooLongOnly(dt12, dt23) == dt12 > MAX_GAP_MS \/ dt23 > MAX_GAP_MS
GapUnreliable(dt12, dt23) ==
    dt12 > MAX_GAP_MS \/ dt23 > MAX_GAP_MS \/ dt12 <= 0 \/ dt23 <= 0

\* const moving = ... (544-548)
MovingEither(d12, d23, dt12, dt23) ==
    \/ d12 > MOVEMENT_THRESHOLD_M /\ SpeedExceeds(d12, dt12)
    \/ d23 > MOVEMENT_THRESHOLD_M /\ SpeedExceeds(d23, dt23)
MovingNoSpeed(d12, d23, dt12, dt23) ==
    d12 > MOVEMENT_THRESHOLD_M /\ d23 > MOVEMENT_THRESHOLD_M
Moving(d12, d23, dt12, dt23) ==
    /\ d12 > MOVEMENT_THRESHOLD_M
    /\ d23 > MOVEMENT_THRESHOLD_M
    /\ SpeedExceeds(d12, dt12)
    /\ SpeedExceeds(d23, dt23)

\* The three most recent points of a history, as 511-514 select them.
Recent(pts) ==
    LET sorted == SortByTime(pts)
    IN  <<At(sorted, Len(sorted) - 3), At(sorted, Len(sorted) - 2),
          At(sorted, Len(sorted) - 1)>>

\* The body of the loop (506-550) for one device; reading p.ts of undefined
\* throws a TypeError.
MotionState(pts, now) ==
    IF TooFew(pts) THEN "unknown"
    ELSE LET p1 == Recent(pts)[1]
             p2 == Recent(pts)[2]
             p3 == Recent(pts)[3]
         IN  IF Undefined \in {p1, p2, p3} THEN "TypeError"
             ELSE LET t1 == toMs(TsOf(p1))
                      t2 == toMs(TsOf(p2))
                      t3 == toMs(TsOf(p3))
                      dt12 == t2 - t1
                      dt23 == t3 - t2
                      d12 == haversineMeters(p1, p2)
                      d23 == haversineMeters(p2, p3)
                  IN  IF TimeMissing(t1, t2, t3) THEN "unknown"
                      ELSE IF Stale(now, t3) THEN "stationary"
                      ELSE IF GapUnreliable(dt12, dt23) THEN "stationary"
                      ELSE IF Moving(d12, d23, dt12, dt23) THEN "moving"
                      ELSE "stationary"

\* The histories and clock readings the classifier is run on.
MotionTimes ==
    { "", "2024-05-01T10:00:00Z", "2024-05-01T10:01:00Z",
      "2024-05-01T10:02:00Z", "2024-05-01T10:04:00Z" }
MotionLats == {0, 30, 60, 100}
MotionPoints ==
    { Pt("d1", t, "", la, 0, "undefined", 50) : t \in MotionTimes, la \in MotionLats }
Histories == UNION { [1..n -> MotionPoints] : n \in 0..MaxHistory }
Nows == {36240000, 36540000, 36540001}

\* The memo of 501 is computed for the current history and clock.
Render ==
    /\ motionOut = "none"
    /\ motionOut' = MotionState(motionPts, motionNow)
    /\ UNCHANGED <<motionPts, motionNow>>
    /\ UNCHANGED <<pointsByDevice, hookVars, wsStoreVars, hostVars, dashWsVars,
                   dashDataVars, alertVars, sessionVars, outerVars>>

\* The points a device reports while the clock runs.
ClockPoints ==
    { Pt("d1", t, "", la, 0, "undefined", 50) :
        t \in {"2024-05-01T10:00:00Z", "2024-05-01T10:01:00Z", "2024-05-01T10:02:00Z"},
        la \in {0, 60, 100} }
ClockBatches == { <<>> } \cup { <<p>> : p \in ClockPoints }

\* setPointsByDevice in loadLatestPoints (234-255) installs a new record, an
\* empty response included, so the memo of 501-554, whose only dependency is
\* pointsByDevice, is computed again with the clock of that render.
MotionMerge(pts) ==
    /\ motionOut # "none"
    /\ motionPts' = MergeDevice(motionPts, pts)
    /\ motionOut' = MotionState(motionPts', motionNow)
    /\ UNCHANGED motionNow
    /\ UNCHANGED <<pointsByDevice, hookVars, wsStoreVars, hostVars, dashWsVars,
                   dashDataVars, alertVars, sessionVars, outerVars>>

\* Time passes; Date.now() (503) is read only when the memo is computed.
ClockTick ==
    /\ \E now \in Nows : now > motionNow /\ motionNow' = now
    /\ UNCHANGED <<motionPts, motionOut>>
    /\ UNCHANGED <<pointsByDevice, hookVars, wsStoreVars, hostVars, dashWsVars,
                   dashDataVars, alertVars, sessionVars, outerVars>>

(***************************************************************************)
(* The derived views: allPoints, mapCenter, selectedPoints, routePolyline  *)
(* and the markers of Dashboard.tsx:556-577 and 938-968; mapCenter, the    *)
(* trails and the markers of the Dashboard of Dashboard.tsx:1653           *)
(* (1718-1727, 1943, 1953-1969).  Coordinates are pairs <<lat, lon>>; <<>>  *)
(* is null.                                                                *)
(***************************************************************************)
\* [32.9565, -96.3893] (565) and [32.9563, -96.3894] (1943), in 1e-4 degree.
DEFAULT_CENTER == <<329565, -963893>>
DEFAULT_CENTER_WS == <<329563, -963894>>

\* Object.values(pointsByDevice).flat(), the keys in insertion order
RECURSIVE Flat(_, _)
Flat(store, order) ==
    IF order = <<>> THEN <<>>
    ELSE store[Head(order)] \o Flat(store, Tail(order))

\* arr.at(-1), arr[arr.length - 1]
Last(s) == At(s, Len(s) - 1)

\* [p.lat, p.lon]
LatLon(p) == <<p.lat, p.lon>>

\* p.lat != null && p.lon != null
HasFix(p) == p.lat # Null /\ p.lon # Null

\* mapCenter (558-566)
MapCenter(store, order) ==
    LET latest == Last(SortByTime(Flat(store, order)))
    IN  IF latest # Undefined THEN LatLon(latest) ELSE DEFAULT_CENTER

\* mapCenter (1718-1727) and the center prop made of it (1943)
MapCenterWs(store, order, selected, alert) ==
    IF alert # <<>> THEN alert
    ELSE LET points == IF selected # "" THEN store[selected]
                       ELSE Flat(store, order)
             valid == SelectSeq(points, HasFix)
             last == Last(valid)
         IN  IF last # Undefined /\ HasFix(last) THEN LatLon(last) ELSE <<>>

CenterProp(center) == IF center # <<>> THEN center ELSE DEFAULT_CENTER_WS

\* p => [p.lat, p.lon] over an array
RECURSIVE MapLatLon(_)
MapLatLon(pts) ==
    IF pts = <<>> THEN <<>> ELSE <<LatLon(Head(pts))>> \o MapLatLon(Tail(pts))

\* selectedPoints and routePolyline (568-577)
RoutePolyline(store, selected) ==
    LET selectedPoints == IF selected = "" THEN <<>> ELSE store[selected]
    IN  IF selected = "" THEN <<>>
        ELSE IF Len(selectedPoints) < 2 THEN <<>>
        ELSE MapLatLon(selectedPoints)

\* The position of the Marker of a listed device (938-950)
Marker(store, id) ==
    LET p == Last(store[id])
    IN  IF p = Undefined THEN <<>> ELSE LatLon(p)

\* The Polyline and the Marker of a device (1953-1969)
Drawn(store, id, selected) ==
    LET last == Last(store[id])
    IN  /\ ~(selected # "" /\ selected # id)
        /\ last # Undefined
        /\ HasFix(last)

TrailWs(store, id, selected) ==
    LET trail == MapLatLon(SelectSeq(store[id], HasFix))
    IN  IF Drawn(store, id, selected) /\ Len(trail) > 1 THEN trail ELSE <<>>

MarkerWs(store, id, selected) ==
    IF Drawn(store, id, selected) THEN LatLon(Last(store[id])) ELSE <<>>

\* The points motionByDevice hands to haversineMeters (538-539): p1, p2, p3
\* when none of the tests of 506-535 has ended the iteration.
DistanceInputs(pts, now) ==
    IF TooFew(pts) THEN {}
    ELSE LET p1 == Recent(pts)[1]
             p2 == Recent(pts)[2]
             p3 == Recent(pts)[3]
             t1 == toMs(TsOf(p1))
             t2 == toMs(TsOf(p2))
             t3 == toMs(TsOf(p3))
         IN  IF TimeMissing(t1, t2, t3) \/ Stale(now, t3)
                  \/ GapUnreliable(t2 - t1, t3 - t2)
             THEN {}
             ELSE {p1, p2, p3}

\* The points of the stores the views are computed from.
ViewLats == {0, 60, Null}
ViewPoints(id) ==
    IF id = "d1"
    THEN { Pt(id, "", t, la, IF la = Null THEN Null ELSE 0, "undefined", 50) :
             t \in {"2024-05-01T10:00:00Z", "2024-05-01T10:01:00Z",
                    "2024-05-01T10:02:00Z"},
             la \in ViewLats }
    ELSE { Pt(id, "", "2024-05-01T10:01:00Z", la, IF la = Null THEN Null ELSE 0,
              "undefined", 50) : la \in {30, Null} }

\* The histories loadLatestPoints leaves: sorted, without duplicates, cut to
\* the window.
ViewHistories(id) ==
    { h \in UNION { [1..n -> ViewPoints(id)] : n \in 0..MaxHistory } :
        MergeDevice(<<>>, h) = h }
ViewStores == { st \in [Devices -> UNION { ViewHistories(id) : id \in Devices }] :
                  \A id \in Devices : st[id] \in ViewHistories(id) }

\* A render of both Dashboards.
ViewRender ==
    /\ ~view.done
    /\ view' =
         [done |-> TRUE,
          mapCenter |-> MapCenter(pointsByDevice, keyOrder),
          mapCenterWs |->
              CenterProp(MapCenterWs(pointsByDeviceWs, keyOrder, selectedDevice,
                                     alertCenter)),
          routePolyline |-> RoutePolyline(pointsByDevice, selectedDevice),
          marker |-> [id \in Devices |-> Marker(pointsByDevice, id)],
          trail |-> [id \in Devices |->
                       TrailWs(pointsByDeviceWs, id, selectedDevice)],
          markerWs |-> [id \in Devices |->
                          MarkerWs(pointsByDeviceWs, id, selectedDevice)],
          distanceInputs |->
              UNION { DistanceInputs(pointsByDevice[id], motionNow) :
                        id \in Devices }]
    /\ UNCHANGED <<selectedDevice, keyOrder, alertCenter>>
    /\ UNCHANGED <<pointsByDevice, hookVars, wsStoreVars, dashWsVars, dashDataVars,
                   alertVars, hostVars, motionVars, sessionVars, storeBVars, appVars,
                   envVars, pollVars>>

(***************************************************************************)
(* App (App.tsx:8-96, version 1) and the App that keeps no token state     *)
(* (App.tsx:104-178, version 2), with Login (part_002:15-43) and Register  *)
(* (Register.tsx:27-44).                                                   *)
(***************************************************************************)
Versions == {1, 2}

\* null of React state and of localStorage.getItem; the value undefined.
NullValue == "<null>"
Absent == "<absent>"
UndefinedValue == "<undefined>"

\* The useState initial values (9-12); lastOp records the handler that ran
\* last.
InitialApp ==
    [view |-> "login", user |-> NullValue, token |-> NullValue, loading |-> TRUE,
     lastOp |-> "none"]

\* data.token and data.user of a 2xx response of /api/auth/login or
\* /api/auth/register.
ResponseTokens == {"tok", "", UndefinedValue}
ResponseUsers == {"u", UndefinedValue}

\* localStorage.setItem(key, value) stores String(value); JSON.stringify of
\* undefined is undefined.
StoredToken(tok) == IF tok = UndefinedValue THEN "undefined" ELSE tok
StoredUser(usr) == IF usr = UndefinedValue THEN "undefined" ELSE "{u}"

\* The truth value of a state value or of a getItem result.
Truthy(x) == x \notin {NullValue, Absent, UndefinedValue, ""}

\* JSON.parse(storedUser) throws on text that is no JSON.
ParsesJson(text) == text = "{u}"

\* The effect of 15-34 (110-125): the session is restored from localStorage.
AppRestore(v) ==
    /\ app[v].loading
    /\ IF Truthy(storage[v].token) /\ Truthy(storage[v].user)
       THEN IF ParsesJson(storage[v].user)
            THEN /\ app' = [app EXCEPT ![v] =
                             [view |-> "dashboard", user |-> "u",
                              token |-> IF v = 1 THEN storage[v].token
                                        ELSE NullValue,
                              loading |-> FALSE, lastOp |-> "restore"]]
                 /\ UNCHANGED storage
            ELSE /\ storage' = [storage EXCEPT ![v] =
                                 [token |-> Absent, user |-> Absent]]
                 /\ app' = [app EXCEPT ![v] =
                             [view |-> IF v = 1 THEN "login" ELSE app[v].view,
                              user |-> IF v = 1 THEN NullValue ELSE app[v].user,
                              token |-> NullValue,
                              loading |-> FALSE, lastOp |-> "restore"]]
       ELSE /\ app' = [app EXCEPT ![v].loading = FALSE, ![v].lastOp = "restore"]
            /\ UNCHANGED storage
    /\ UNCHANGED <<pointsByDevice, hookVars, wsStoreVars, hostVars, motionVars,
                   sessionVars, dashWsVars, dashDataVars, alertVars, viewVars,
                   storeBVars, envVars, pollVars>>

\* What App renders (60-95, 148-177): "null" is the return of 92.
Screen(v) ==
    IF app[v].loading THEN "loading"
    ELSE IF app[v].view = "login" THEN "login"
    ELSE IF app[v].view = "register" THEN "register"
    ELSE IF v = 1 /\ ~Truthy(app[v].token) THEN "null"
    ELSE "dashboard"

\* The token the rendered Dashboard works with: its prop (95), or
\* localStorage.getItem("token") (Dashboard.tsx:1661).
DashboardToken(v) ==
    IF v = 1 THEN app[v].token
    ELSE IF storage[v].token = Absent THEN NullValue ELSE storage[v].token

\* setItem of the form (part_002:35-36, Register.tsx:42-43), then handleLogin
\* or handleRegister (36-50, 127-139).
SignedIn(v, tok, usr, op) ==
    /\ storage' = [storage EXCEPT ![v] =
                      [token |-> StoredToken(tok), user |-> StoredUser(usr)]]
    /\ app' = [app EXCEPT ![v] =
                  [view |-> "dashboard", user |-> usr,
                   token |-> IF v = 1 THEN tok ELSE NullValue,
                   loading |-> FALSE, lastOp |-> op]]

AppLogin(v, tok, usr) ==
    /\ Screen(v) = "login"
    /\ SignedIn(v, tok, usr, "login")
    /\ UNCHANGED <<pointsByDevice, hookVars, wsStoreVars, hostVars, motionVars,
                   sessionVars, dashWsVars, dashDataVars, alertVars, viewVars,
                   storeBVars, envVars, pollVars>>

AppRegister(v, tok, usr) ==
    /\ Screen(v) = "register"
    /\ SignedIn(v, tok, usr, "register")
    /\ UNCHANGED <<pointsByDevice, hookVars, wsStoreVars, hostVars, motionVars,
                   sessionVars, dashWsVars, dashDataVars, alertVars, viewVars,
                   storeBVars, envVars, pollVars>>

\* onSwitchToRegister and onSwitchToLogin (82, 86)
AppSwitch(v) ==
    /\ Screen(v) \in {"login", "register"}
    /\ app' = [app EXCEPT ![v].view =
                  IF app[v].view = "login" THEN "register" ELSE "login"]
    /\ UNCHANGED storage
    /\ UNCHANGED <<pointsByDevice, hookVars, wsStoreVars, hostVars, motionVars,
                   sessionVars, dashWsVars, dashDataVars, alertVars, viewVars,
                   storeBVars, envVars, pollVars>>

\* handleLogout without its first removeItem
AppLogoutKeepsToken(v) ==
    /\ Screen(v) = "dashboard"
    /\ storage' = [storage EXCEPT ![v].user = Absent]
    /\ app' = [app EXCEPT ![v] =
                  [view |-> "login", user |-> NullValue, token |-> NullValue,
                   loading |-> FALSE, lastOp |-> "logout"]]
    /\ UNCHANGED <<pointsByDevice, hookVars, wsStoreVars, hostVars, motionVars,
                   sessionVars, dashWsVars, dashDataVars, alertVars, viewVars,
                   storeBVars, envVars, pollVars>>

\* handleLogout (52-58, 141-146), called by the Dashboard
AppLogout(v) ==
    /\ Screen(v) = "dashboard"
    /\ storage' = [storage EXCEPT ![v] = [token |-> Absent, user |-> Absent]]
    /\ app' = [app EXCEPT ![v] =
                  [view |-> "login", user |-> NullValue, token |-> NullValue,
                   loading |-> FALSE, lastOp |-> "logout"]]
    /\ UNCHANGED <<pointsByDevice, hookVars, wsStoreVars, hostVars, motionVars,
                   sessionVars, dashWsVars, dashDataVars, alertVars, viewVars,
                   storeBVars, envVars, pollVars>>

\* The render with view dashboard and no token (89-93): setView("login").
AppForceLogin(v) ==
    /\ Screen(v) = "null"
    /\ app' = [app EXCEPT ![v].view = "login"]
    /\ UNCHANGED storage
    /\ UNCHANGED <<pointsByDevice, hookVars, wsStoreVars, hostVars, motionVars,
                   sessionVars, dashWsVars, dashDataVars, alertVars, viewVars,
                   storeBVars, envVars, pollVars>>

\* The page is loaded again: the state starts over, localStorage stays.
AppReload(v) ==
    /\ ~app[v].loading
    /\ app' = [app EXCEPT ![v] = InitialApp]
    /\ UNCHANGED storage
    /\ UNCHANGED <<pointsByDevice, hookVars, wsStoreVars, hostVars, motionVars,
                   sessionVars, dashWsVars, dashDataVars, alertVars, viewVars,
                   storeBVars, envVars, pollVars>>

(***************************************************************************)
(* Specifications.                                                         *)
(***************************************************************************)
vars ==
    <<pointsByDevice, hookVars, wsStoreVars, dashWsVars, dashDataVars,
      alertVars, hostVars, motionVars, sessionVars, outerVars>>

LoadLatestPoints(data) ==
    /\ pointsByDevice' = MergeStore(pointsByDevice, data)
    /\ UNCHANGED <<hookVars, wsStoreVars, hostVars, motionVars, outerVars, sessionVars,
                   dashWsVars, dashDataVars, alertVars>>

\* loadLatestPoints (1131-1167) with the response data.
LoadLatestPointsB(data) ==
    /\ loadThrew' = ByThrows(data)
    /\ pointsByDeviceB' = IF ByThrows(data) THEN pointsByDeviceB
                          ELSE MergeStoreB(pointsByDeviceB, data)
    /\ UNCHANGED <<pointsByDevice, hookVars, wsStoreVars, hostVars, motionVars,
                   sessionVars, dashWsVars, dashDataVars, alertVars, viewVars,
                   appVars, envVars, pollVars>>

InitBase ==
    /\ serverUp = FALSE
    /\ pollRun = 0
    /\ pollUp = FALSE
    /\ app = [v \in Versions |-> InitialApp]
    /\ storage = [v \in Versions |-> [token |-> Absent, user |-> Absent]]
    /\ pointsByDeviceB = [id \in DevicesB |-> <<>>]
    /\ loadThrew = FALSE
    /\ retryCount = 0
    /\ retryTimeout = 0
    /\ isMounted = TRUE
    /\ hookUp = FALSE
    /\ hookWs = 0
    /\ sockets = [s \in SocketIds |-> "none"]
    /\ timers = [t \in TimerIds |-> 0]
    /\ wsStatus = "connecting"
    /\ loadStatus = "loading"
    /\ loadsInFlight = 0
    /\ setups = 0
    /\ failures = 0
    /\ wsRef = 0
    /\ reconnectTimerRef = 0
    /\ dashStatus = "connecting"
    /\ dashSockets = [s \in DashSocketIds |-> NoSocket]
    /\ dashTimers = [t \in DashTimerIds |-> 0]
    /\ stoppedRuns = {}
    /\ dashRun = 0
    /\ dashUp = FALSE
    /\ dashFailures = 0
    /\ chains = [c \in ChainIds |-> NoChain]
    /\ superseded = {}
    /\ stale = {}
    /\ lastEnd = NoEnd
    /\ devices = <<>>
    /\ unclaimed = <<>>
    /\ geofences = <<>>
    /\ dashLoadStatus = "loading"
    /\ incomingAlert = "none"
    /\ toastAlert = "none"
    /\ toastTimers = {}
    /\ uncaught = FALSE
    /\ frameLog = "none"
    /\ lastFrame = NoFrame
    /\ claimingId = ""
    /\ geofenceBusy = FALSE
    /\ opRequest = "none"
    /\ opResult = "idle"
    /\ loggedOut = FALSE

\* Nothing rendered yet.
NoView ==
    [done |-> FALSE, mapCenter |-> <<>>, mapCenterWs |-> <<>>,
     routePolyline |-> <<>>, marker |-> <<>>, trail |-> <<>>, markerWs |-> <<>>,
     distanceInputs |-> {}]

InitOther ==
    /\ InitBase
    /\ pointsByDevice = [id \in Devices |-> <<>>]
    /\ pointsByDeviceWs = [id \in Devices |-> <<>>]
    /\ selectedDevice = ""
    /\ keyOrder = <<"d1", "d2">>
    /\ alertCenter = <<>>
    /\ view = NoView

Init ==
    /\ InitOther
    /\ motionPts = <<>>
    /\ motionNow = 0
    /\ motionOut = "none"

\* The point store of Dashboard.tsx:167 under REST snapshots.
StoreNext == \E data \in Batches : LoadLatestPoints(data)

SpecStore == Init /\ [][StoreNext]_vars

\* useReconnectingWebSocket: the connection life cycle.  The frames of this
\* specification are those handleMessage ignores; the stream of points is
\* StreamNext's.
ControlFrames == { f \in Frames : f.type \in {"hello", "malformed", "null"} }

HookNext ==
    \/ EffectSetup
    \/ EffectCleanup
    \/ \E t \in TimerIds : TimerFire(t)
    \/ \E s \in SocketIds : OnOpen(s)
    \/ \E s \in SocketIds : OnError(s)
    \/ \E s \in SocketIds : OnClose(s)
    \/ \E s \in SocketIds : \E frame \in ControlFrames : OnMessage(s, frame)

SpecHook == Init /\ [][HookNext]_vars

\* The Dashboard of useReconnectingWebSocket while its first connection is
\* up: loadInitial and the frames of the stream.
StreamNext ==
    \/ EffectSetup
    \/ \E s \in SocketIds : OnOpen(s)
    \/ \E s \in SocketIds : \E frame \in Frames : OnMessage(s, frame)
    \/ LoadInitialEffect
    \/ \E seeded \in Seeds : LoadInitialDone(seeded)
    \/ LoadInitialFail

SpecStream == Init /\ [][StreamNext]_vars

\* The motion classifier on every history and clock reading of the bounds.
InitMotion ==
    /\ InitOther
    /\ motionPts \in Histories
    /\ motionNow \in Nows
    /\ motionOut = "none"

MotionNext == Render

SpecMotion == InitMotion /\ [][MotionNext]_vars

\* useReconnectingWebSocket, set up once and not torn down, against a
\* backend that refuses or drops connections until it comes up for good: a
\* connection attempt fails or an open connection drops only while the
\* backend is not up; a failed attempt still delivers its close event.
RecoveryNext ==
    \/ EffectSetup /\ setups = 0
    \/ \E t \in TimerIds : TimerFire(t)
    \/ \E s \in SocketIds : OnOpen(s)
    \/ \E s \in SocketIds : ~serverUp /\ OnError(s)
    \/ \E s \in SocketIds : (~serverUp \/ sockets[s] = "closing") /\ OnClose(s)
    \/ \E s \in SocketIds : \E frame \in ControlFrames : OnMessage(s, frame)
    \/ ServerComesUp

\* Timers fire, a connection the backend accepts opens, and the close event
\* of a failed connection is delivered.
RecoveryFairness ==
    /\ WF_vars(\E t \in TimerIds : TimerFire(t))
    /\ WF_vars(\E s \in SocketIds : serverUp /\ OnOpen(s))
    /\ WF_vars(\E s \in SocketIds : sockets[s] = "closing" /\ OnClose(s))

SpecRecovery == Init /\ [][RecoveryNext]_vars /\ RecoveryFairness

\* Both versions of App over page loads, sign-ins and logouts.
AppNext ==
    \/ \E v \in Versions : AppRestore(v)
    \/ \E v \in Versions, tok \in ResponseTokens, usr \in ResponseUsers :
          AppLogin(v, tok, usr)
    \/ \E v \in Versions, tok \in ResponseTokens, usr \in ResponseUsers :
          AppRegister(v, tok, usr)
    \/ \E v \in Versions : AppSwitch(v)
    \/ \E v \in Versions : AppLogout(v)
    \/ \E v \in Versions : AppForceLogin(v)
    \/ \E v \in Versions : AppReload(v)

SpecApp == Init /\ [][AppNext]_vars

\* The point stores of both REST Dashboards under responses with malformed
\* elements.
BatchNext ==
    \/ \E data \in MalBatches : LoadLatestPoints(data)
    \/ \E data \in MalBatches : LoadLatestPointsB(data)

SpecBatch == Init /\ [][BatchNext]_vars

\* The views of every store, selection and key order of the bounds, rendered
\* at 10:04:00.
InitView ==
    /\ InitBase
    /\ motionPts = <<>>
    /\ motionNow = Least(Nows)
    /\ motionOut = "none"
    /\ pointsByDevice \in ViewStores
    /\ pointsByDeviceWs = pointsByDevice
    /\ selectedDevice \in {""} \cup Devices
    /\ keyOrder \in { <<"d1", "d2">>, <<"d2", "d1">> }
    /\ alertCenter \in { <<>>, <<7, 7>> }
    /\ view = NoView

ViewNext == ViewRender

SpecView == InitView /\ [][ViewNext]_vars

\* The label of one device from the mount of the Dashboard on, while points
\* are merged into its history and the clock advances.
InitClock ==
    /\ InitOther
    /\ motionPts = <<>>
    /\ motionNow = Least(Nows)
    /\ motionOut = "none"

ClockNext ==
    \/ Render
    \/ \E pts \in ClockBatches : MotionMerge(pts)
    \/ ClockTick

SpecClock == InitClock /\ [][ClockNext]_vars

\* The WebSocket effect of Dashboard.tsx:420-497 under a server that sends
\* no frame: its connection life cycle.
DashRetryNext ==
    \/ DashEffectSetup
    \/ DashEffectCleanup
    \/ \E t \in DashTimerIds : DashTimerFire(t)
    \/ \E s \in DashSocketIds : DashOnOpen(s)
    \/ \E s \in DashSocketIds : DashOnError(s)
    \/ \E s \in DashSocketIds : DashOnClose(s)

SpecDashRetry == Init /\ [][DashRetryNext]_vars

\* The connectWs Dashboard of part_002:584: its connection life cycle.
ConnectWsNext ==
    \/ CwEffectSetup
    \/ CwEffectCleanup
    \/ \E t \in DashTimerIds : CwTimerFire(t)
    \/ \E s \in DashSocketIds : CwOnOpen(s)
    \/ \E s \in DashSocketIds : CwOnError(s)
    \/ \E s \in DashSocketIds : CwOnClose(s)

SpecConnectWs == Init /\ [][ConnectWsNext]_vars

\* The same Dashboard while its first connection is up: the frames and the
\* refreshes they start.
RefreshNext ==
    \/ CwEffectSetup
    \/ \E s \in DashSocketIds : CwOnOpen(s)
    \/ \E s \in DashSocketIds : CwOnMessage(s)
    \/ \E c \in ChainIds, list \in DeviceLists : LoadDevicesOk(c, list)
    \/ \E c \in ChainIds, list \in DeviceLists : LoadUnclaimedOk(c, list)
    \/ \E c \in ChainIds, data \in DashBatches : LoadLatestPointsOk(c, data)
    \/ \E c \in ChainIds : RestFail(c)

SpecRefresh == Init /\ [][RefreshNext]_vars

\* The operations of the user and the loads they start, with every answer
\* of the backend.
SessionNext ==
    \/ \E id \in Devices : ClaimDevice(id)
    \/ \E status \in HttpStatuses : ClaimResponse(status)
    \/ DeleteGeofence
    \/ CreateGeofence
    \/ \E status \in HttpStatuses : GeofenceResponse(status)
    \/ \E c \in ChainIds, list \in DeviceLists : LoadDevicesOk(c, list)
    \/ \E c \in ChainIds, list \in DeviceLists : LoadUnclaimedOk(c, list)
    \/ \E c \in ChainIds, data \in DashBatches : LoadLatestPointsOk(c, data)
    \/ \E c \in ChainIds, list \in GeofenceLists : LoadGeofencesOk(c, list)
    \/ \E c \in ChainIds : RestFail(c)
    \/ \E c \in ChainIds : RestUnauthorized(c)

SpecSession == Init /\ [][SessionNext]_vars

\* Both Dashboards while their first connection is up, fed the frames of the
\* stream: the hook's with the frames handleMessage does not store, the
\* REST Dashboard's with the refreshes its frames start.
FramesNext ==
    \/ EffectSetup
    \/ \E s \in SocketIds : OnOpen(s)
    \/ \E s \in SocketIds : \E frame \in ControlFrames : OnMessage(s, frame)
    \/ DashEffectSetup
    \/ \E s \in DashSocketIds : DashOnOpen(s)
    \/ \E s \in DashSocketIds : \E frame \in DashFrames : DashOnMessage(s, frame)
    \/ \E a \in AlertIds : ToastTimerFire(a)
    \/ \E c \in ChainIds, list \in DeviceLists : LoadDevicesOk(c, list)
    \/ \E c \in ChainIds, list \in DeviceLists : LoadUnclaimedOk(c, list)
    \/ \E c \in ChainIds, data \in DashBatches : LoadLatestPointsOk(c, data)
    \/ \E c \in ChainIds : RestFail(c)

SpecFrames == Init /\ [][FramesNext]_vars

(***************************************************************************)
(* Helpers of the properties.                                              *)
(***************************************************************************)
Range(s) == { s[i] : i \in 1..Len(s) }

\* The identity of an observation: (timestamp, lat, lon, frameCounter), an
\* absent frame counter being the empty one.
Identity(x) ==
    [timestamp |-> TsOf(x), lat |-> x.lat, lon |-> x.lon,
     frameCounter |-> IF x.fCnt \in {"null", "undefined"} THEN "" ELSE x.fCnt]

\* A timestamp that is missing or that Date cannot parse.
NoTimestamp(x) == TsOf(x) = "" \/ DateGetTime(TsOf(x)) = NaN

\* The time a point is ordered by: 0 without a timestamp.
OrderTime(x) == IF NoTimestamp(x) THEN 0 ELSE DateGetTime(TsOf(x))

NonDecreasing(h) ==
    \A i, j \in 1..Len(h) : i < j => OrderTime(h[i]) <= OrderTime(h[j])

NoSharedIdentity(h) ==
    \A i, j \in 1..Len(h) : i # j => Identity(h[i]) # Identity(h[j])

\* Batches whose points have pairwise distinct identities, within and across.
DistinctIdentities(A, B) ==
    LET ab == A \o B
    IN  \A i, j \in 1..Len(ab) : i # j => Identity(ab[i]) # Identity(ab[j])

(***************************************************************************)
(* C1.  Idempotent merge: merging a batch a second time into the result of *)
(* merging it changes nothing, for every history the store can hold and    *)
(* every batch.  Stated as the claim states it; the code does not satisfy  *)
(* it when the window is full and two points share a timestamp.            *)
(***************************************************************************)
C1_IdempotentMerge ==
    \A data \in Batches :
        MergeStore(MergeStore(pointsByDevice, data), data)
            = MergeStore(pointsByDevice, data)

(***************************************************************************)
(* C2.  Order-independence: for batches A and B with pairwise distinct     *)
(* identities, merging A then B gives the same history as merging B then   *)
(* A.  Stated as the claim states it; the stable sort keeps arrival order  *)
(* among equal timestamps, so the code does not satisfy it.                *)
(***************************************************************************)
C2_OrderIndependent ==
    \A A, B \in Batches :
        DistinctIdentities(A, B) =>
            MergeStore(MergeStore(pointsByDevice, A), B)
                = MergeStore(MergeStore(pointsByDevice, B), A)

C4_Ordered ==
    \A id \in Devices :
        /\ NonDecreasing(pointsByDevice[id])
        /\ \A i, j \in 1..Len(pointsByDevice[id]) :
             (NoTimestamp(pointsByDevice[id][j])
                /\ ~NoTimestamp(pointsByDevice[id][i])) => j < i

\* A full history that starts with a point without a timestamp and a point
\* with an unparseable one, then a dated point.
C4_Witness ==
    LET h == pointsByDevice["d1"]
    IN  /\ Len(h) = WindowCap
        /\ \E i, j, k \in 1..Len(h) :
              /\ TsOf(h[i]) = ""
              /\ TsOf(h[j]) = "not a date"
              /\ ~NoTimestamp(h[k])

(***************************************************************************)
(* C5.  Window bound: no history is longer than its window (loadLatest-    *)
(* Points, handleMessage), and what a merge drops is the oldest: no point  *)
(* that leaves a history is later than a point that stays.  Stated as the  *)
(* claim states it, for the batch or the streamed point that comes next.   *)
(* handleMessage appends without sorting, so it drops the point that       *)
(* arrived first, not the oldest one.                                      *)
(***************************************************************************)
DroppedAreOldest(before, after) ==
    \A x \in Range(before) :
        (~ \E y \in Range(after) : Identity(y) = Identity(x))
            => \A y \in Range(after) : OrderTime(x) <= OrderTime(y)

C5_WindowBound ==
    /\ \A id \in Devices :
         /\ Len(pointsByDevice[id]) <= WindowCap
         /\ Len(pointsByDeviceWs[id]) <= StreamCap
    /\ \A data \in Batches : \A id \in Devices :
         DroppedAreOldest(pointsByDevice[id] \o GroupBy(data, id),
                          MergeStore(pointsByDevice, data)[id])
    /\ \A p \in WsPoints :
         p.deviceId # "" =>
            DroppedAreOldest(Append(pointsByDeviceWs[p.deviceId], p),
                             StreamAppend(pointsByDeviceWs[p.deviceId], p))

\* The part of C5 that is about loadLatestPoints alone.
C5_StoreWindow ==
    /\ \A id \in Devices : Len(pointsByDevice[id]) <= WindowCap
    /\ \A data \in Batches : \A id \in Devices :
         DroppedAreOldest(pointsByDevice[id] \o GroupBy(data, id),
                          MergeStore(pointsByDevice, data)[id])

(***************************************************************************)
(* Helpers of the transport properties.                                    *)
(***************************************************************************)
LiveSockets == { s \in SocketIds : Live(sockets[s]) }
PendingTimers == { t \in TimerIds : timers[t] # 0 }

\* 1000, 2000, 4000, 8000, 16000, 30000, 30000, ...: the delay of retry n.
Schedule ==
    <<1000, 2000, 4000, 8000, 16000, 30000, 30000, 30000, 30000, 30000>>

(***************************************************************************)
(* C6.  Backoff schedule: a close event handled with retry counter n < 10  *)
(* schedules exactly one timer, of min(1000 * 2^n, 30000) ms, which        *)
(* retryTimeout then holds; the counter becomes n + 1 and the status       *)
(* reconnecting.  (A close event that arrives after teardown is not        *)
(* handled: isMounted is false.)                                           *)
(***************************************************************************)
C6_Backoff ==
    [][ \A s \in SocketIds :
          (OnClose(s) /\ isMounted /\ retryCount < 10) =>
             /\ retryCount' = retryCount + 1
             /\ wsStatus' = "reconnecting"
             /\ \E t \in TimerIds :
                  /\ timers[t] = 0
                  /\ timers'[t] = Schedule[retryCount + 1]
                  /\ retryTimeout' = t
                  /\ \A u \in TimerIds \ {t} : timers'[u] = timers[u]
      ]_vars

\* The sixth retry in a row is pending with the capped delay, and before it
\* the fifth was scheduled with 16000 ms.
C6_Witness ==
    /\ retryCount = 6
    /\ wsStatus = "reconnecting"
    /\ \E t \in TimerIds : timers[t] = 30000 /\ retryTimeout = t

(***************************************************************************)
(* C8.  Single connection and single timer: at most one live connection    *)
(* and at most one pending reconnect timer exist in every reachable state  *)
(* of useReconnectingWebSocket, the effect being torn down and set up      *)
(* again included.  Stated as the claim states it; connect() neither       *)
(* closes the earlier socket nor clears the earlier timer, and the close   *)
(* event of the socket the teardown closed is handled once isMounted is    *)
(* true again.                                                             *)
(***************************************************************************)
C8_SingleConnection ==
    /\ Cardinality(LiveSockets) <= 1
    /\ Cardinality(PendingTimers) <= 1

(***************************************************************************)
(* C9.  Teardown releases resources: once the effect is torn down, no      *)
(* reconnect timer is pending and no connection is live.  Stated as the    *)
(* claim states it; the cleanup closes the socket of the first connect     *)
(* only, so a connection made by a reconnect stays open.                   *)
(***************************************************************************)
C9_TeardownReleases ==
    (~hookUp /\ setups > 0) => (LiveSockets = {} /\ PendingTimers = {})

\* C7  Bounded retry: once 10 close events were handled with no open in
\* between, the transport is in the terminal status closed, holds no pending
\* reconnect timer and no live connection; it does not retry without bound.
\* Stated for the hook and for the WebSocket effect of Dashboard.tsx:420.
DashLiveSockets == { s \in DashSocketIds : DashLive(s) }
DashPendingTimers == { t \in DashTimerIds : dashTimers[t] # 0 }
C7_BoundedRetry ==
    /\ (hookUp /\ failures >= WS_MAX_RETRIES) =>
          (wsStatus = "closed" /\ PendingTimers = {} /\ LiveSockets = {})
    /\ (dashUp /\ dashFailures >= WS_MAX_RETRIES) =>
          (dashStatus = "closed" /\ DashPendingTimers = {}
             /\ DashLiveSockets = {})

\* C10  Teardown safety: once the effect is torn down, no step changes the
\* connection status, the device list, the point store or the load status,
\* and no step creates a connection.
TornDown == ~dashUp /\ dashRun > 0
C10_TeardownSafety ==
    [][(TornDown /\ ~dashUp') =>
          /\ dashStatus' = dashStatus
          /\ devices' = devices
          /\ pointsByDevice' = pointsByDevice
          /\ dashLoadStatus' = dashLoadStatus
          /\ \A s \in DashSocketIds :
               dashSockets'[s].state = "connecting"
                 => dashSockets[s].state = "connecting"]_vars

\* C11  Malformed frames: a frame whose text does not parse, received while
\* the hook is mounted, lets no exception escape the handler and leaves the
\* connection status, the retry counter, the sockets, the timers and the
\* store as they were; an uplink frame received after it on the connection
\* is stored as the newest point of its device.
C11_MalformedDropped ==
    [][\A s \in SocketIds : \A f \in Frames :
          /\ (ParseThrows(f) /\ isMounted /\ OnMessage(s, f)) =>
                /\ wsStatus' = wsStatus
                /\ retryCount' = retryCount
                /\ sockets' = sockets
                /\ timers' = timers
                /\ pointsByDeviceWs' = pointsByDeviceWs
                /\ ~uncaught'
          /\ (frameLog # "none" /\ isMounted /\ Stored(f) /\ OnMessage(s, f)) =>
                /\ pointsByDeviceWs'[f.data.deviceId] # <<>>
                /\ pointsByDeviceWs'[f.data.deviceId]
                     [Len(pointsByDeviceWs'[f.data.deviceId])] = f.data
                /\ frameLog' = "processed"]_vars

C11_Witness ==
    /\ frameLog = "processed"
    /\ wsStatus = "connected"
    /\ ~uncaught
    /\ \E id \in Devices : pointsByDeviceWs[id] # <<>>

\* C12  Telemetry routing: a frame of type uplink or telemetry whose data has
\* a deviceId, received while the hook is mounted, leaves its point in the
\* history of that device.
C12_TelemetryRouted ==
    [][\A s \in SocketIds : \A f \in Frames :
          (/\ f.type \in {"uplink", "telemetry"}
           /\ f.data.deviceId # ""
           /\ isMounted
           /\ OnMessage(s, f))
            => f.data \in Range(pointsByDeviceWs'[f.data.deviceId])]_vars

\* What the classifier claims speak of: the three most recent points of the
\* classified history, their times, gaps and distances.
Classified == motionOut # "none" /\ Len(motionPts) >= 3
T1 == toMs(TsOf(Recent(motionPts)[1]))
T2 == toMs(TsOf(Recent(motionPts)[2]))
T3 == toMs(TsOf(Recent(motionPts)[3]))
Age == motionNow - T3
Gap12 == T2 - T1
Gap23 == T3 - T2
D12 == haversineMeters(Recent(motionPts)[1], Recent(motionPts)[2])
D23 == haversineMeters(Recent(motionPts)[2], Recent(motionPts)[3])
TimingUnreliable ==
    \/ Age > RECENT_WINDOW_MS
    \/ Gap12 > MAX_GAP_MS \/ Gap23 > MAX_GAP_MS
    \/ Gap12 <= 0 \/ Gap23 <= 0
TimesPresent == T1 # 0 /\ T2 # 0 /\ T3 # 0

\* C13  Classifier minimum data: a history of 0, 1 or 2 points is labelled
\* unknown, and on every history the classifier returns one of its three
\* labels instead of throwing.
C13_MinimumData ==
    motionOut # "none" =>
        /\ motionOut \in {"moving", "stationary", "unknown"}
        /\ Len(motionPts) < 3 => motionOut = "unknown"

C13_Witness == motionOut = "unknown" /\ Len(motionPts) = 2

\* C14  Unreliable timing forces stationary: with at least 3 points, a most
\* recent point older than 5 minutes, a gap above 90 s or a gap that is zero
\* or negative gives stationary whatever the distances, also when a missing
\* timestamp counts as 0.
C14_UnreliableTiming ==
    (Classified /\ TimingUnreliable) => motionOut = "stationary"

\* C14 as amended: the rule holds when the three most recent points all have
\* a usable timestamp; when one of them has none the label is unknown.
C14_UnreliableTimingAmended ==
    Classified =>
        /\ (TimesPresent /\ TimingUnreliable) => motionOut = "stationary"
        /\ ~TimesPresent => motionOut = "unknown"

C14_Witness ==
    /\ Classified
    /\ TimesPresent
    /\ Age <= RECENT_WINDOW_MS
    /\ Gap12 = 0
    /\ Gap23 = 60000
    /\ D12 > MOVEMENT_THRESHOLD_M
    /\ D23 > 36
    /\ motionOut = "stationary"

\* C15  Moving rule: with at least 3 points, a fresh most recent point and
\* both gaps in (0, 90 s], the label is moving exactly when both distances
\* exceed 25 m and both speeds exceed 0.6 m/s, and stationary otherwise.
C15_MovingRule ==
    (/\ Classified
     /\ Age <= RECENT_WINDOW_MS
     /\ Gap12 > 0 /\ Gap12 <= MAX_GAP_MS
     /\ Gap23 > 0 /\ Gap23 <= MAX_GAP_MS)
      => /\ motionOut \in {"moving", "stationary"}
         /\ motionOut = "moving" <=>
              /\ D12 > 25
              /\ D23 > 25
              /\ D12 * 1000 * 10 > 6 * Gap12
              /\ D23 * 1000 * 10 > 6 * Gap23

\* A single long segment between slow ones, and a history that is moving.
C15_Witness ==
    /\ Classified
    /\ Age <= RECENT_WINDOW_MS
    /\ Gap12 = 60000 /\ Gap23 = 60000
    /\ D12 = 100 /\ D23 = 0
    /\ motionOut = "stationary"

\* The reference scenario: three most recent points 60 s apart, each 30 m
\* from the previous one, the last within the recency window.
Scenario ==
    /\ Classified
    /\ Gap12 = 60000 /\ Gap23 = 60000
    /\ D12 = 30 /\ D23 = 30
    /\ Age >= 0 /\ Age <= RECENT_WINDOW_MS

\* C16  Reference scenario: the scenario is classified moving.
C16_ReferenceScenario == Scenario => motionOut = "moving"

\* C16 as amended: the scenario is classified stationary, its speeds being
\* 0.5 m/s.
C16_ReferenceScenarioAmended == Scenario => motionOut = "stationary"

C16_Witness == Scenario /\ motionOut = "stationary"

\* C17  Authorization errors: a 401 answer to a REST call of the dashboard
\* (a load, claim device, create or delete geofence) invokes onLogout, ends
\* the call with an error for its caller, and leaves no request of that call
\* in flight.
C17_Unauthorized ==
    [][/\ \A c \in ChainIds :
            RestUnauthorized(c)
              => (loggedOut' /\ chains'[c] = NoChain
                    /\ (chains[c].origin = "claim" => opResult' = "rejected"))
       /\ ClaimResponse(401)
            => (loggedOut' /\ opResult' = "rejected" /\ opRequest' = "none"
                  /\ chains' = chains)
       /\ GeofenceResponse(401)
            => (loggedOut' /\ opResult' = "rejected" /\ opRequest' = "none"
                  /\ chains' = chains)]_vars

\* C18  One merge path for both sources: whatever uplink frames and initial
\* loads arrive, in whatever order, every history of the streaming dashboard
\* holds no two points of one identity and is non-decreasing by timestamp.
C18_OneMergePath ==
    \A id \in Devices :
        /\ NoSharedIdentity(pointsByDeviceWs[id])
        /\ NonDecreasing(pointsByDeviceWs[id])

\* new keeps old but for oldest points trimmed at the cap: a suffix of old
\* is the head of new, and old lost points only if new is full.
OnlyTrimmed(old, new, cap) ==
    \E k \in 0..Len(old) :
        /\ Len(new) >= Len(old) - k
        /\ SubSeq(old, k + 1, Len(old)) = SubSeq(new, 1, Len(old) - k)
        /\ k > 0 => Len(new) = cap

\* C19  Alert frames do not touch histories: the step that receives an alert
\* frame leaves every history as it was, and no step empties or replaces a
\* history that holds points; a history only loses its oldest points when
\* it is trimmed at the cap.
C19_HistoriesKept ==
    [][/\ \A s \in SocketIds : \A f \in Frames :
            (f.type = "alert" /\ isMounted /\ OnMessage(s, f))
              => pointsByDeviceWs' = pointsByDeviceWs
       /\ \A id \in Devices :
            pointsByDeviceWs[id] # <<>> =>
               /\ pointsByDeviceWs'[id] # <<>>
               /\ OnlyTrimmed(pointsByDeviceWs[id], pointsByDeviceWs'[id],
                              StreamCap)]_vars

\* C20  Successful open resets the budget: an open handled by the mounted
\* hook sets the retry counter to 0 and the status to connected; a close
\* handled while the status is connected schedules the reconnect with the
\* base delay and makes the counter 1; and the status becomes closed only
\* after more than WS_MAX_RETRIES closes with no open in between.
C20_OpenResets ==
    [][/\ \A s \in SocketIds :
            (OnOpen(s) /\ isMounted)
              => (retryCount' = 0 /\ wsStatus' = "connected")
       /\ \A s \in SocketIds :
            (OnClose(s) /\ isMounted /\ wsStatus = "connected")
              => /\ retryCount' = 1
                 /\ wsStatus' = "reconnecting"
                 /\ retryTimeout' # 0
                 /\ timers'[retryTimeout'] = WS_BASE_DELAY_MS
       /\ (wsStatus' = "closed" /\ wsStatus # "closed")
            => failures' > WS_MAX_RETRIES]_vars

\* Within one run of the effect a close was handled, and the reconnect that
\* followed has opened.
C20_Witness ==
    /\ hookUp
    /\ setups = 1
    /\ retryTimeout # 0
    /\ wsStatus = "connected"
    /\ retryCount = 0

\* C21  Fresh start resets the retry counter: every set-up of the connect
\* effect, the first one and each one after a teardown, leaves the retry
\* counter at 0 and reports connecting.
C21_FreshStart ==
    [][EffectSetup => (retryCount' = 0 /\ wsStatus' = "connecting")]_vars

\* A well-formed frame of a type no handler knows.
Hello == CHOOSE f \in Frames : f.type = "hello"
DashHello == CHOOSE f \in DashFrames : f.type = "hello"

\* C22  Unrecognized frames are ignored: a well-formed frame of an unknown
\* type changes neither the point store, nor the device lists, nor the alert
\* state, nor the connection status, starts no REST request and raises no
\* error, in the handler of either Dashboard.
C22_UnrecognizedIgnored ==
    [][/\ \A s \in SocketIds :
            OnMessage(s, Hello)
              => UNCHANGED <<pointsByDeviceWs, loadStatus, loadsInFlight,
                             wsStatus, uncaught>>
       /\ \A s \in DashSocketIds :
            DashOnMessage(s, DashHello)
              => UNCHANGED <<pointsByDevice, devices, unclaimed, alertVars,
                             dashStatus, chains>>]_vars

\* C22 (amended)  The same, except that in the handler of the REST Dashboard
\* the frame starts the refresh every frame starts: one sequence beginning
\* with the latest-points request.
C22_UnrecognizedIgnoredAmended ==
    [][/\ \A s \in SocketIds :
            OnMessage(s, Hello)
              => UNCHANGED <<pointsByDeviceWs, loadStatus, loadsInFlight,
                             wsStatus, uncaught>>
       /\ \A s \in DashSocketIds :
            DashOnMessage(s, DashHello)
              => /\ UNCHANGED <<pointsByDevice, devices, unclaimed, alertVars,
                                dashStatus>>
                 /\ \E c \in ChainIds :
                      /\ chains[c] = NoChain
                      /\ chains'[c].origin = "ws"
                      /\ chains'[c].step = "latest"
                      /\ \A d \in ChainIds \ {c} : chains'[d] = chains[d]]_vars

\* The hook has handled an unknown frame, and in the REST Dashboard a frame
\* that is no alert has started its refresh.
C22_Witness ==
    /\ lastFrame = Hello
    /\ wsStatus = "connected"
    /\ incomingAlert = "none"
    /\ \E c \in ChainIds : chains[c] # NoChain /\ chains[c].origin = "ws"

\* C23  Motion label follows the clock: once rendered, the label shown for a
\* device is the classifier's value for the device's current history and
\* the current time.
C23_LabelFollowsClock ==
    motionOut # "none" => motionOut = MotionState(motionPts, motionNow)

\* The coordinates the map may be centred on: those of the points with a fix
\* whose timestamp is greatest, in all histories or in the selected one.
ScopePoints(store) ==
    IF selectedDevice # "" THEN Range(store[selectedDevice])
    ELSE UNION { Range(store[id]) : id \in Devices }
LatestFixes(store) ==
    { p \in ScopePoints(store) :
        /\ HasFix(p)
        /\ \A q \in ScopePoints(store) : HasFix(q) => OrderTime(q) <= OrderTime(p) }

\* C24  Map centre: after a render, mapCenter is the coordinate of a point
\* with the greatest timestamp among the points with a fix, of all devices or
\* of the selected device, and the default coordinate when no point has a
\* fix; in both Dashboards.
C24_MapCentre ==
    view.done =>
      /\ IF LatestFixes(pointsByDevice) = {}
         THEN view.mapCenter = DEFAULT_CENTER
         ELSE \E p \in LatestFixes(pointsByDevice) : view.mapCenter = LatLon(p)
      /\ IF LatestFixes(pointsByDeviceWs) = {}
         THEN view.mapCenterWs = DEFAULT_CENTER_WS
         ELSE \E p \in LatestFixes(pointsByDeviceWs) : view.mapCenterWs = LatLon(p)

\* <<lat, lon>> holds a null.
NoFix(c) == c # <<>> /\ (c[1] = Null \/ c[2] = Null)

\* C25  Points without a fix stay out of spatial computations: after a
\* render no vertex of the route and no marker position holds a null
\* coordinate, no point handed to the distance function of the motion
\* classifier lacks a fix, and the route is empty when the selected device
\* has fewer than 2 points with a fix.
C25_NoFixOutOfSpace ==
    view.done =>
      /\ \A i \in 1..Len(view.routePolyline) : ~NoFix(view.routePolyline[i])
      /\ \A id \in Devices : ~NoFix(view.marker[id])
      /\ \A p \in view.distanceInputs : HasFix(p)
      /\ (selectedDevice # ""
            /\ Len(SelectSeq(pointsByDevice[selectedDevice], HasFix)) < 2)
           => view.routePolyline = <<>>

\* The elements of a response that are points with a deviceId.
RECURSIVE WellFormed(_)
WellFormed(data) ==
    IF data = <<>> THEN <<>>
    ELSE IF Head(data) = NullElement \/ Head(data).deviceId = ""
         THEN WellFormed(Tail(data))
         ELSE <<Head(data)>> \o WellFormed(Tail(data))

\* C26  Failure isolation in a batch: a load whose response holds malformed
\* elements (null, or without deviceId) merges the other points of the
\* response as if the malformed ones were absent, and leaves the history of
\* every device without a point in the response unchanged; in both versions
\* of loadLatestPoints.
C26_BatchIsolation ==
    [][\A data \in MalBatches :
         /\ LoadLatestPoints(data)
              => \A id \in Devices :
                   pointsByDevice'[id] =
                     IF GroupBy(WellFormed(data), id) = <<>>
                     THEN pointsByDevice[id]
                     ELSE MergeDevice(pointsByDevice[id],
                                      GroupBy(WellFormed(data), id))
         /\ LoadLatestPointsB(data)
              => \A id \in Devices :
                   pointsByDeviceB'[id] =
                     IF GroupByB(WellFormed(data), id) = <<>>
                     THEN pointsByDeviceB[id]
                     ELSE MergeDeviceB(pointsByDeviceB[id],
                                       GroupByB(WellFormed(data), id))]_vars

\* C27  No dashboard without a token: in both versions of App, after every
\* step a rendered Dashboard has a token that is not null; a session restore
\* or a logout that leaves no token leaves the login view; and a logout
\* removes token and user from localStorage.
C27_NoDashboardWithoutToken ==
    [][\A v \in Versions :
         /\ Screen(v)' = "dashboard"
              => DashboardToken(v)' \notin {NullValue, UndefinedValue}
         /\ (AppRestore(v) /\ DashboardToken(v)' = NullValue)
              => Screen(v)' = "login"
         /\ AppLogout(v)
              => /\ Screen(v)' = "login"
                 /\ DashboardToken(v)' = NullValue
                 /\ storage'[v] = [token |-> Absent, user |-> Absent]]_vars

\* Both versions have shown the Dashboard and were logged out of it.
C27_Witness ==
    \A v \in Versions :
        /\ app[v].lastOp = "logout"
        /\ Screen(v) = "login"
        /\ storage[v].token = Absent

\* The closes of this run of failures: those handled since the last open and
\* those of failed connections whose close event is still to come.
ClosesSoFar ==
    failures + Cardinality({ s \in SocketIds : sockets[s] = "closing" })

\* C28  Recovery liveness: when the backend accepts every connection from a
\* moment on at which the hook is set up and fewer than 11 consecutive closes
\* have occurred, the status eventually is connected with retry counter 0;
\* and once the status is closed it stays closed.
C28_Recovery ==
    /\ (serverUp /\ hookUp /\ ClosesSoFar <= WS_MAX_RETRIES)
         ~> (wsStatus = "connected" /\ retryCount = 0)
    /\ [](wsStatus = "closed" => [](wsStatus = "closed"))

\* The backend came up with the budget used up to its last retry, and the
\* connection was established; in another behaviour it came up after the
\* budget was exhausted.
C28_Witness ==
    /\ serverUp
    /\ wsStatus = "connected"
    /\ retryCount = 0
    /\ retryTimeout # 0

(***************************************************************************)
(* The initial load and the poll (Dashboard.tsx:383-417).                  *)
(***************************************************************************)
\* The effect runs (384-413): the initial load sets loadStatus to loading
\* and sends its first fetch, and the interval is set.
PollEffectSetup ==
    /\ ~pollUp
    /\ pollRun < MaxSetups
    /\ pollRun' = pollRun + 1
    /\ pollUp' = TRUE
    /\ dashLoadStatus' = "loading"
    /\ StartChain("initial", "devices", pollRun + 1)
    /\ UNCHANGED <<devices, unclaimed, geofences>>
    /\ UNCHANGED <<pointsByDevice, hookVars, wsStoreVars, hostVars, motionVars,
                   sessionVars, dashWsVars, alertVars, viewVars, storeBVars,
                   appVars, envVars>>

\* The cleanup (414-417): mounted = false, clearInterval.
PollEffectCleanup ==
    /\ pollUp
    /\ pollUp' = FALSE
    /\ UNCHANGED pollRun
    /\ UNCHANGED <<pointsByDevice, hookVars, wsStoreVars, hostVars, motionVars,
                   sessionVars, dashWsVars, dashDataVars, alertVars, viewVars,
                   storeBVars, appVars, envVars>>

\* The interval callback (402-411) runs and sends its first fetch.
PollFire ==
    /\ pollUp
    /\ StartChain("poll", "devices", pollRun)
    /\ UNCHANGED <<devices, unclaimed, geofences, dashLoadStatus>>
    /\ UNCHANGED <<pointsByDevice, hookVars, wsStoreVars, hostVars, motionVars,
                   sessionVars, dashWsVars, alertVars, outerVars>>

\* The answers of the backend to the loads of the initial load and the poll.
PollLists == { <<>>, <<"d1">> }
PollBatches ==
    { <<>>, <<Pt("d1", "2024-05-01T10:01:00Z", "", 1, 1, "8", 90)>> }

\* The initial load and the poll with every answer of the backend.
PollNext ==
    \/ PollEffectSetup
    \/ PollEffectCleanup
    \/ PollFire
    \/ \E c \in ChainIds, list \in PollLists : LoadDevicesOk(c, list)
    \/ \E c \in ChainIds, list \in PollLists : LoadUnclaimedOk(c, list)
    \/ \E c \in ChainIds, data \in PollBatches : LoadLatestPointsOk(c, data)
    \/ \E c \in ChainIds, list \in GeofenceLists : LoadGeofencesOk(c, list)
    \/ \E c \in ChainIds : RestFail(c)
    \/ \E c \in ChainIds : RestUnauthorized(c)

SpecPoll == Init /\ [][PollNext]_vars

\* The awaited fetch of sequence c throws.
Throws(c) == RestFail(c) \/ RestUnauthorized(c)

\* C30: loadStatus is written only by the initial load: loading where the
\* load starts, ready where its fourth load succeeds, error where one of its
\* loads fails. A poll cycle one of whose loads fails leaves loadStatus as
\* it is, lets no exception reach the host, sends none of the loads that
\* follow, has not written the point store unless the failing load comes
\* after the latest-points load, and a new poll cycle starts only where the
\* interval fires.
C30_LoadStatusAndPollFailures ==
    [][/\ dashLoadStatus' # dashLoadStatus =>
            \/ PollEffectSetup /\ dashLoadStatus' = "loading"
            \/ \E c \in ChainIds :
                 /\ chains[c].origin = "initial"
                 /\ \/ /\ \E list \in GeofenceLists : LoadGeofencesOk(c, list)
                       /\ dashLoadStatus' = "ready"
                    \/ Throws(c) /\ dashLoadStatus' = "error"
       /\ \A c \in ChainIds :
            (chains[c].origin = "initial" /\ chains[c].run = pollRun /\ pollUp
               /\ Throws(c))
              => dashLoadStatus' = "error"
       /\ \A c \in ChainIds :
            (chains[c].origin = "poll" /\ Throws(c))
              => /\ dashLoadStatus' = dashLoadStatus
                 /\ ~uncaught'
                 /\ \A d \in ChainIds :
                      chains'[d] = IF d = c THEN NoChain ELSE chains[d]
                 /\ pointsByDevice' = pointsByDevice
       /\ \A c \in ChainIds :
            (chains[c].origin = "poll" /\ pointsByDevice' # pointsByDevice
               /\ \A d \in ChainIds \ {c} : chains'[d] = chains[d])
              => chains[c].step = "latest"
       /\ (\E c \in ChainIds :
             chains[c] = NoChain /\ chains'[c].origin = "poll") => PollFire
      ]_vars

\* A poll cycle has failed at its second load after the initial load had
\* set loadStatus to ready, and nothing is in flight.
C30_Witness ==
    /\ lastEnd = [origin |-> "poll", step |-> "unclaimed", ok |-> FALSE]
    /\ dashLoadStatus = "ready"
    /\ \A c \in ChainIds : chains[c] = NoChain
    /\ pollUp

(***************************************************************************)
(* Refreshes in flight at once: the poll, the refresh of a frame and the   *)
(* refresh after a claim, every fetch answering 2xx, in any order.         *)
(***************************************************************************)
UplinkFrames == { frame \in DashFrames : frame.type = "uplink" }

OverlapNext ==
    \/ PollEffectSetup
    \/ PollFire
    \/ DashEffectSetup
    \/ \E s \in DashSocketIds : DashOnOpen(s)
    \/ \E s \in DashSocketIds : \E frame \in UplinkFrames : DashOnMessage(s, frame)
    \/ \E id \in {"d1"} : ClaimDevice(id)
    \/ ClaimResponse(200)
    \/ \E c \in ChainIds, list \in PollLists : LoadDevicesOk(c, list)
    \/ \E c \in ChainIds, list \in PollLists : LoadUnclaimedOk(c, list)
    \/ \E c \in ChainIds, data \in PollBatches : LoadLatestPointsOk(c, data)
    \/ \E c \in ChainIds, list \in GeofenceLists : LoadGeofencesOk(c, list)

SpecOverlap == Init /\ [][OverlapNext]_vars

\* No refresh is in flight.
Quiet == \A c \in ChainIds : chains[c] = NoChain

\* C29: once the refreshes in flight have all been answered, the device
\* list and the unclaimed list each hold the response of the fetch of that
\* list that was sent last, not the response of an earlier fetch that was
\* answered after it.
C29_LastIssuedWins == Quiet => stale \cap ListSteps = {}



====
